---- MODULE Spec2Model ----
(***************************************************************************)
(* A model of WorkerRouter (src/index.ts): the two route tables, the       *)
(* registration methods, and one dispatch through #route with its          *)
(* recovery pass.                                                          *)
(*                                                                         *)
(* User code (middleware, handlers) is the environment: every invocation   *)
(* nondeterministically returns or throws.  URLPattern, EffectsList /      *)
(* executeEffects and the response creators are external modules; they are *)
(* modelled by what the router relies on.                                  *)
(***************************************************************************)
EXTENDS Integers, Sequences, FiniteSets, TLC

\* Bound on the number of entries registered over both route tables.
MaxRoutes == 2

-----------------------------------------------------------------------------
(* JavaScript values.  Every value is a record with a `kind` field.        *)

Absent == [kind |-> "absent"]          \* the key is not on the object
Undefined == [kind |-> "undefined"]    \* the value `undefined`

\* A Response.  `by` names who created it, so that two responses with the
\* same status created at different places are different objects.
\* `applied` lists the effects executeEffects has applied to it.
Response(status, by) ==
  [kind |-> "Response", status |-> status, by |-> by, applied |-> <<>>]

\* An Error thrown by user code; `by` names the stage that threw it.
UserError(by) == [kind |-> "Error", by |-> by, message |-> "boom"]

notFound == Response(404, "router")
internalServerError == Response(500, "router")

\* err instanceof Response
isResponse(v) == v.kind = "Response"
\* error instanceof Error
isError(v) == v.kind \in {"Error", "AggregateError", "TypeError"}

\* A plain Error in place of the TypeError.
TypeErrorPlain(message) ==
  [kind |-> "Error", by |-> "routeHandler", message |-> message]

\* TypeError(message) as #routeHandler throws it
TypeError(message) ==
  [kind |-> "TypeError", by |-> "routeHandler", message |-> message]

\* new AggregateError(errors, message)
AggregateError(errors, message) ==
  [kind |-> "AggregateError", errors |-> errors, message |-> message]

-----------------------------------------------------------------------------
(* URLs and URLPattern.  A pathname is a sequence of atoms ("/" and path   *)
(* words); a pathname pattern is a sequence of tokens: a literal atom, a   *)
(* named group (":id", one or more atoms up to the next "/"), the wildcard *)
(* "*" (any atoms, greedy) or a regular-expression group "(a|b)" (one of   *)
(* the words listed).  Wildcards and regular-expression groups are         *)
(* unnamed: their keys are "0", "1", .. in the order they occur.           *)

Lit(a) == [t |-> "lit", v |-> a]
Name(n) == [t |-> "name", v |-> n]
Star == [t |-> "star", v |-> "*"]
Alt(regexp) == [t |-> "alt", v |-> regexp]

\* The words a regular-expression group of the model matches.
Words(regexp) == IF regexp = "(item|sale)" THEN {"item", "sale"} ELSE {}

NoMatch == [ok |-> FALSE, groups |-> <<>>]

\* Matches tokens against atoms; groups are <<key, value>> pairs in the
\* order the groups occur in the pattern; n is the next positional index.
RECURSIVE MatchTokens(_, _, _)
MatchTokens(tokens, atoms, n) ==
  IF tokens = <<>> THEN
    IF atoms = <<>> THEN [ok |-> TRUE, groups |-> <<>>] ELSE NoMatch
  ELSE
    LET tok == Head(tokens)
        \* lengths a group may take, in the order the matcher tries them
        Try(lens) ==
          LET good == {k \in lens :
                        MatchTokens(Tail(tokens), SubSeq(atoms, k + 1, Len(atoms)),
                                    IF tok.t \in {"star", "alt"}
                                    THEN n + 1 ELSE n).ok}
          IN  IF good = {} THEN NoMatch
              ELSE LET k == IF tok.t = "star"
                            THEN CHOOSE a \in good : \A b \in good : b <= a
                            ELSE CHOOSE a \in good : \A b \in good : a <= b
                       rest == MatchTokens(Tail(tokens),
                                           SubSeq(atoms, k + 1, Len(atoms)),
                                           IF tok.t \in {"star", "alt"}
                                           THEN n + 1 ELSE n)
                       key == IF tok.t \in {"star", "alt"}
                              THEN ToString(n) ELSE tok.v
                   IN  [ok |-> TRUE,
                        groups |-> <<[key |-> key, value |-> SubSeq(atoms, 1, k)]>>
                                   \o rest.groups]
    IN  CASE tok.t = "lit" ->
               IF atoms # <<>> /\ Head(atoms) = tok.v
               THEN MatchTokens(Tail(tokens), Tail(atoms), n)
               ELSE NoMatch
          [] tok.t = "name" ->
               Try({k \in 1..Len(atoms) : \A i \in 1..k : atoms[i] # "/"})
          [] tok.t = "alt" ->
               Try({k \in {1} : atoms # <<>> /\ Head(atoms) \in Words(tok.v)})
          [] OTHER -> Try(0..Len(atoms))

\* The pattern of a component that was left undefined ("*"), and the
\* pattern that matches one string only.
Wildcard == [kind |-> "any"]
Exact(string) == [kind |-> "exact", v |-> string]

\* new URLPattern({pathname, protocol, hostname, port}): a component left
\* undefined becomes the wildcard, search and hash among them.  Protocol,
\* hostname and port are kept together as `origin`.
URLPattern(origin, pathname) ==
  [origin |-> IF origin = Undefined THEN Wildcard ELSE origin,
   pathname |-> pathname,
   search |-> Wildcard,
   hash |-> Wildcard]

\* A URL has the search and hash components in its pathname.
execWholeURL(pattern, fqURL) ==
  LET whole == fqURL.pathname
               \o (IF fqURL.search = "" THEN <<>> ELSE <<"?", fqURL.search>>)
               \o (IF fqURL.hash = "" THEN <<>> ELSE <<"#", fqURL.hash>>)
      m == MatchTokens(pattern.pathname, whole, 0)
  IN  IF (pattern.origin = Wildcard \/ pattern.origin = fqURL.origin) /\ m.ok
      THEN [kind |-> "URLPatternResult",
            pathname |-> [input |-> whole, groups |-> m.groups],
            search |-> [input |-> fqURL.search],
            hash |-> [input |-> fqURL.hash]]
      ELSE Absent

\* pattern.exec(fqURL): null (Absent here) or the URLPatternResult.  The
\* URL is matched component by component: the pathname pattern sees the
\* pathname only, the search and hash patterns see the query string and the
\* fragment.
exec(pattern, fqURL) ==
  LET m == MatchTokens(pattern.pathname, fqURL.pathname, 0)
  IN  IF /\ pattern.origin = Wildcard \/ pattern.origin = fqURL.origin
         /\ m.ok
         /\ pattern.search = Wildcard \/ pattern.search = Exact(fqURL.search)
         /\ pattern.hash = Wildcard \/ pattern.hash = Exact(fqURL.hash)
      THEN [kind |-> "URLPatternResult",
            pathname |-> [input |-> fqURL.pathname, groups |-> m.groups],
            search |-> [input |-> fqURL.search],
            hash |-> [input |-> fqURL.hash]]
      ELSE Absent

Origin(name) == [kind |-> "origin", name |-> name]

\* Object.values(groups): the values of the integer-like keys first, in
\* ascending order, then those of the other keys in insertion order.
ObjectValues(groups) ==
  LET isIndex(g) == \E i \in 0..Len(groups) : g.key = ToString(i)
      indexed == SelectSeq(groups, isIndex)
      named == SelectSeq(groups, LAMBDA g : ~isIndex(g))
      all == indexed \o named
  IN  [k \in 1..Len(all) |-> all[k].value]

\* new URL(input, base).href for a base that is an origin: a path is
\* resolved against the root, the empty string is the root itself, and an
\* input that starts with "//" names its own host.
newURL(input, base) ==
  IF Len(input) >= 3 /\ input[1] = "/" /\ input[2] = "/"
  THEN [origin |-> Origin("http://" \o input[3]),
        pathname |-> IF Len(input) = 3 THEN <<"/">>
                     ELSE SubSeq(input, 4, Len(input)),
        search |-> "", hash |-> ""]
  ELSE IF input # <<>> /\ Head(input) = "/"
  THEN [origin |-> base, pathname |-> input, search |-> "", hash |-> ""]
  ELSE [origin |-> base, pathname |-> <<"/">> \o input,
        search |-> "", hash |-> ""]

\* The origins, URLs, request methods and pathname patterns the model draws
\* its inputs from.
LocalOrigin == Origin("http://localhost")
\* A URL (an href) by its components; URL(..) has no query string and no
\* fragment.
URLWith(origin, pathname, search, hash) ==
  [origin |-> origin, pathname |-> pathname, search |-> search, hash |-> hash]
URL(origin, pathname) == URLWith(origin, pathname, "", "")

PathItem == <<"/", "item">>
PathOther == <<"/", "other">>

URLs == {URL(LocalOrigin, PathItem), URL(LocalOrigin, PathOther)}

\* '/item' and '*'
PatItem == <<Lit("/"), Lit("item")>>
PatAny == <<Star>>
Paths == {PatItem, PatAny}

RequestMethods == {"GET", "POST"}

\* String.prototype.toUpperCase on the method names the model uses.
toUpperCase(s) ==
  CASE s = "get" -> "GET"
    [] s = "post" -> "POST"
    [] s = "put" -> "PUT"
    [] s = "patch" -> "PATCH"
    [] s = "delete" -> "DELETE"
    [] s = "head" -> "HEAD"
    [] s = "options" -> "OPTIONS"
    [] OTHER -> s

-----------------------------------------------------------------------------
VARIABLES
  location,       \* self.location: Undefined or an origin
  thrown,         \* whether the last registration call threw
  debug,          \* #opts.debug
  routes,         \* #routes
  recoverRoutes,  \* #recoverRoutes
  subRouter,      \* the #routes and #recoverRoutes of a second WorkerRouter
  pc,             \* where the #route in flight stands
  outer,          \* the #route calls waiting for this one (await handler(..))
  request,        \* ctx.request of the dispatch
  fqURL,          \* the fqURL argument of #route
  ctx,            \* the context object #route assigns to
  selected,       \* index in #routes of `result`, 0 for null
  recoverSelected,\* index in #recoverRoutes of `recoverResult`, 0 for null
  todo,           \* the stages of the compiled handler still to run
  awaitable,      \* the awaitable context handed to the next stage
  response,       \* what the user handler returned
  err,            \* the value caught by the outer catch
  recoverErr,     \* the value caught by the inner catch
  outcome,        \* how #route settled
  handled,        \* the completion signal: "pending" or "resolved"
  calls,          \* log of the functions invoked by the dispatch
  events,         \* the ErrorEvents dispatched
  suspended       \* a second #route call in flight, waiting at an await

vars == <<location, thrown, debug, routes, recoverRoutes, subRouter, pc, outer,
          request, fqURL, ctx,
          selected, recoverSelected, todo, awaitable, response, err, recoverErr,
          outcome, handled, calls, events, suspended>>

config == <<location, debug>>
tables == <<routes, recoverRoutes, subRouter>>
dispatch == <<pc, outer, request, fqURL, ctx, selected, recoverSelected, todo, awaitable,
              response, err, recoverErr, outcome, handled, calls, events>>

-----------------------------------------------------------------------------
(* Registration.  A compiled handler is the list of user functions it      *)
(* closes over, in the order it invokes them; it ends with                 *)
(* executeEffects(event.effects, response).                                *)

\* Protocol, hostname and port left out of the pattern.
toPatternUnanchored(pathname) == URLPattern(Undefined, pathname)

\* The search and hash components given as the empty string.
toPatternEmptySearch(pathname) ==
  [URLPattern(location, pathname) EXCEPT
     !.search = Exact(""), !.hash = Exact("")]

toPattern(pathname) == URLPattern(location, pathname)

Route(method, pattern, handler) ==
  [method |-> method, pattern |-> pattern, handler |-> handler]

\* unshift in place of push: the new entry goes to the front.
pushRouteFirst(method, pattern) ==
  <<Route(method, pattern, <<"baseMiddleware", "handler">>)>> \o routes

pushRoute(method, pattern) ==
  Append(routes, Route(method, pattern, <<"baseMiddleware", "handler">>))

\* The route's middleware composed before the router's.
pushMiddlewareRouteReversed(method, pattern) ==
  Append(routes,
         Route(method, pattern, <<"middleware", "baseMiddleware", "handler">>))

pushMiddlewareRoute(method, pattern) ==
  Append(routes,
         Route(method, pattern, <<"baseMiddleware", "middleware", "handler">>))

\* A recover route compiled like a regular one, router middleware first.
pushRecoverRouteWithBase(method, pattern) ==
  Append(recoverRoutes,
         Route(method, pattern, <<"baseMiddleware", "handler">>))

pushRecoverRoute(method, pattern) ==
  Append(recoverRoutes, Route(method, pattern, <<"handler">>))

pushMiddlewareRecoverRoute(method, pattern) ==
  Append(recoverRoutes, Route(method, pattern, <<"middleware", "handler">>))

\* The state a dispatch starts from and a registration leaves behind.
NoValue == Undefined
PendingOutcome == [type |-> "pending", value |-> NoValue]
NoAwaitable ==
  [state |-> "none", value |-> NoValue, caps |-> <<>>, settled |-> TRUE]
\* The event itself, a plain value, is the first stage's argument.
Event ==
  [state |-> "fulfilled", value |-> NoValue, caps |-> <<>>, settled |-> TRUE]
NoContext ==
  [request |-> Absent, waitUntil |-> Absent, match |-> Absent,
   handled |-> Absent, effects |-> Absent, response |-> Absent,
   error |-> Absent, event |-> Absent, env |-> Absent, ctx |-> Absent,
   connInfo |-> Absent]

ClearDispatch ==
  /\ pc' = "idle"
  /\ outer' = <<>>
  /\ request' = Absent
  /\ fqURL' = Absent
  /\ ctx' = NoContext
  /\ selected' = 0
  /\ recoverSelected' = 0
  /\ todo' = <<>>
  /\ awaitable' = NoAwaitable
  /\ response' = Absent
  /\ err' = Absent
  /\ recoverErr' = Absent
  /\ outcome' = PendingOutcome
  /\ handled' = "none"
  /\ calls' = <<>>
  /\ events' = <<>>

\* Registration calls come before the first dispatch or between two
\* dispatches, while no #route is in flight.
Idle == pc \in {"idle", "done"} /\ outer = <<>>

\* Every call with more than two arguments taken as (pattern, middleware,
\* handler).
registerPatternLenient(method, argsN, pattern) ==
  /\ Idle
  /\ IF argsN = 2 THEN
       /\ routes' = pushRoute(method, pattern)
       /\ thrown' = FALSE
     ELSE IF argsN >= 3 THEN
       /\ routes' = pushMiddlewareRoute(method, pattern)
       /\ thrown' = FALSE
     ELSE
       /\ routes' = routes
       /\ thrown' = TRUE
  /\ ClearDispatch
  /\ UNCHANGED <<config, suspended, recoverRoutes, subRouter>>

registerPattern(method, argsN, pattern) ==
  /\ Idle
  /\ IF argsN = 2 THEN
       /\ routes' = pushRoute(method, pattern)
       /\ thrown' = FALSE
     ELSE IF argsN = 3 THEN
       /\ routes' = pushMiddlewareRoute(method, pattern)
       /\ thrown' = FALSE
     ELSE
       /\ routes' = routes
       /\ thrown' = TRUE
  /\ ClearDispatch
  /\ UNCHANGED <<config, suspended, recoverRoutes, subRouter>>

registerRecoverPattern(method, argsN, pattern) ==
  /\ Idle
  /\ IF argsN = 2 THEN
       /\ recoverRoutes' = pushRecoverRoute(method, pattern)
       /\ thrown' = FALSE
     ELSE IF argsN = 3 THEN
       /\ recoverRoutes' = pushMiddlewareRecoverRoute(method, pattern)
       /\ thrown' = FALSE
     ELSE
       /\ recoverRoutes' = recoverRoutes
       /\ thrown' = TRUE
  /\ ClearDispatch
  /\ UNCHANGED <<config, suspended, routes, subRouter>>

\* The entry a push function has appended.
Pushed(table) == table[Len(table)]

\* subRouter.get(..) and the like: #registerPattern on the second router.
subRegisterPattern(method, argsN, pattern) ==
  /\ Idle
  /\ IF argsN = 2 THEN
       /\ subRouter' = [subRouter EXCEPT
            !.routes = Append(@, Pushed(pushRoute(method, pattern)))]
       /\ thrown' = FALSE
     ELSE IF argsN = 3 THEN
       /\ subRouter' = [subRouter EXCEPT
            !.routes = Append(@, Pushed(pushMiddlewareRoute(method, pattern)))]
       /\ thrown' = FALSE
     ELSE
       /\ subRouter' = subRouter
       /\ thrown' = TRUE
  /\ ClearDispatch
  /\ UNCHANGED <<config, suspended, routes, recoverRoutes>>

\* A mount that runs the router's middleware before the sub router.
useWithMiddleware(path) ==
  /\ Idle
  /\ routes' = Append(routes, Route("ANY", toPattern(path),
                                    <<"baseMiddleware", "routeHandler">>))
  /\ thrown' = FALSE
  /\ ClearDispatch
  /\ UNCHANGED <<config, suspended, recoverRoutes, subRouter>>

\* use(path, subRouter): the handler is subRouter.#routeHandler itself.
\* The console.warn of debug mode is not modelled.
use(path) ==
  /\ Idle
  /\ routes' = Append(routes,
                      Route("ANY", toPattern(path), <<"routeHandler">>))
  /\ thrown' = FALSE
  /\ ClearDispatch
  /\ UNCHANGED <<config, suspended, recoverRoutes, subRouter>>

\* arguments.length of a registration call
ArgsN == 1..4

any(path, argsN) == registerPattern("ANY", argsN, toPattern(path))
all(path, argsN) == registerPattern("ANY", argsN, toPattern(path))
get(path, argsN) == registerPattern("GET", argsN, toPattern(path))
post(path, argsN) == registerPattern("POST", argsN, toPattern(path))
put(path, argsN) == registerPattern("PUT", argsN, toPattern(path))
patch(path, argsN) == registerPattern("PATCH", argsN, toPattern(path))
delete(path, argsN) == registerPattern("DELETE", argsN, toPattern(path))
head(path, argsN) == registerPattern("HEAD", argsN, toPattern(path))
options(path, argsN) == registerPattern("OPTIONS", argsN, toPattern(path))
\* A recover route for GET requests only.
recoverGET(path, argsN) ==
  registerRecoverPattern("GET", argsN, toPattern(path))
recover(path, argsN) == registerRecoverPattern("ANY", argsN, toPattern(path))

\* A URLPatternInit: protocol, hostname and port together as `origin`
\* (Undefined when the init leaves them out) and the pathname.
URLPatternInit(origin, pathname) == [origin |-> origin, pathname |-> pathname]

\* The pathname of the init passed through toPattern.
externalAnchored(init, argsN) ==
  registerPattern("ANY", argsN, toPattern(init.pathname))

\* external(init, ..) and its verb forms: init goes to the URLPattern
\* constructor as it is.
external(init, argsN) ==
  registerPattern("ANY", argsN, URLPattern(init.origin, init.pathname))
externalGET(init, argsN) ==
  registerPattern("GET", argsN, URLPattern(init.origin, init.pathname))
externalPOST(init, argsN) ==
  registerPattern("POST", argsN, URLPattern(init.origin, init.pathname))
externalPUT(init, argsN) ==
  registerPattern("PUT", argsN, URLPattern(init.origin, init.pathname))
externalPATCH(init, argsN) ==
  registerPattern("PATCH", argsN, URLPattern(init.origin, init.pathname))
externalDELETE(init, argsN) ==
  registerPattern("DELETE", argsN, URLPattern(init.origin, init.pathname))
externalOPTIONS(init, argsN) ==
  registerPattern("OPTIONS", argsN, URLPattern(init.origin, init.pathname))
externalHEAD(init, argsN) ==
  registerPattern("HEAD", argsN, URLPattern(init.origin, init.pathname))

\* useExternal(init, subRouter)
useExternal(init) ==
  /\ Idle
  /\ routes' = Append(routes,
                      Route("ANY", URLPattern(init.origin, init.pathname),
                            <<"routeHandler">>))
  /\ thrown' = FALSE
  /\ ClearDispatch
  /\ UNCHANGED <<config, suspended, recoverRoutes, subRouter>>

recoverExternal(init, argsN) ==
  registerRecoverPattern("ANY", argsN,
                         URLPattern(init.origin, init.pathname))
subGet(path, argsN) == subRegisterPattern("GET", argsN, toPattern(path))

\* subRouter.recover(..): #registerRecoverPattern on the second router.
subRegisterRecoverPattern(method, argsN, pattern) ==
  /\ Idle
  /\ IF argsN = 2 THEN
       /\ subRouter' = [subRouter EXCEPT
            !.recoverRoutes =
              Append(@, Pushed(pushRecoverRoute(method, pattern)))]
       /\ thrown' = FALSE
     ELSE IF argsN = 3 THEN
       /\ subRouter' = [subRouter EXCEPT
            !.recoverRoutes =
              Append(@, Pushed(pushMiddlewareRecoverRoute(method, pattern)))]
       /\ thrown' = FALSE
     ELSE
       /\ subRouter' = subRouter
       /\ thrown' = TRUE
  /\ ClearDispatch
  /\ UNCHANGED <<config, suspended, routes, recoverRoutes>>

subRecover(path, argsN) ==
  subRegisterRecoverPattern("ANY", argsN, toPattern(path))

-----------------------------------------------------------------------------
(* Dispatch: #execPatterns, #route, #fireError and the compiled handlers.  *)

\* The method check without toUpperCase().
skipMethodCaseSensitive(method, req) ==
  method # "ANY" /\ method # req.method

\* line 141: `continue` when the route is for another method
skipMethod(method, req) ==
  method # "ANY" /\ method # toUpperCase(req.method)

\* The for loop of #execPatterns from entry i on: the index of the entry it
\* returns [handler, match] for, or 0 when it returns null.
RECURSIVE execPatternsFrom(_, _, _, _)
execPatternsFrom(url, req, table, i) ==
  IF i > Len(table) THEN 0
  ELSE IF skipMethod(table[i].method, req)
       THEN execPatternsFrom(url, req, table, i + 1)
  ELSE IF exec(table[i].pattern, url) = Absent
       THEN execPatternsFrom(url, req, table, i + 1)
  ELSE i

\* A loop that keeps the last matching entry instead of returning the first.
execPatternsLast(url, req, table) ==
  LET hits == {i \in 1..Len(table) :
                 /\ ~skipMethod(table[i].method, req)
                 /\ exec(table[i].pattern, url) # Absent}
  IN  IF hits = {} THEN 0 ELSE CHOOSE i \in hits : \A j \in hits : j <= i

execPatterns(url, req, table) == execPatternsFrom(url, req, table, 1)

Call(fn, table, route) ==
  [fn |-> fn, table |-> table, route |-> route,
   arg |-> "none", given |-> <<>>, result |-> "none", value |-> Undefined]

\* new EffectsList(); `id` tells the lists of one dispatch apart.
EffectsList(id) == [kind |-> "EffectsList", id |-> id, items |-> <<>>]

\* An effect a middleware pushes on event.effects: a function that closes
\* over what the middleware saw of its dispatch.
Effect(by, req) == [kind |-> "effect", by |-> by, request |-> req]

\* Every effect of the list applied two times over.
executeEffectsTwice(effects, res) ==
  [res EXCEPT !.applied = res.applied \o effects.items \o effects.items]

\* executeEffects(effects, response): the response with the effects applied.
executeEffects(effects, res) ==
  [res EXCEPT !.applied = res.applied \o effects.items]

\* new ErrorEvent('error', {error, message}) as #fireError builds it
ErrorEvent(error) ==
  [type |-> "error", target |-> "self", error |-> error,
   message |-> IF isError(error) THEN error.message ELSE ""]

\* No event is dispatched.
fireErrorSilent(error) == events

fireError(error) == Append(events, ErrorEvent(error))

Returned(v) == [type |-> "returned", value |-> v]
Thrown(v) == [type |-> "thrown", value |-> v]

\* A new object with the properties given, in place of the context.
assignToNew(context, match, id) ==
  [NoContext EXCEPT
     !.match = match,
     !.handled = [kind |-> "promise", name |-> "handled"],
     !.effects = EffectsList(id)]

\* line 104: Object.assign(ctx, {match, handled, effects: new EffectsList()})
assign(context, match, id) ==
  [context EXCEPT
     !.match = match,
     !.handled = [kind |-> "promise", name |-> "handled"],
     !.effects = EffectsList(id)]

\* #route(fqURL, ctx) up to the call of the compiled handler (lines
\* 98-103), on the routes `table` of the router it is called on; `prior`
\* are the calls logged so far, `id` names the new EffectsList.
startRoute(url, context, table, name, prior, id) ==
  LET result == execPatterns(url, context.request, table)
  IN  /\ fqURL' = url
      /\ selected' = result
      /\ handled' = "pending"
      /\ IF result = 0 THEN
           /\ err' = notFound
           /\ pc' = "catch"
           /\ ctx' = context
           /\ todo' = <<>>
           /\ calls' = Append(prior, Call("execPatterns", name, 0))
         ELSE
           /\ err' = Absent
           /\ pc' = "route"
           /\ ctx' = assign(context, exec(table[result].pattern, url), id)
           /\ todo' = table[result].handler
           /\ calls' = prior \o <<Call("execPatterns", name, result),
                                  Call("route.handler", name, result)>>
      /\ recoverSelected' = 0
      /\ awaitable' = Event
      /\ response' = Absent
      /\ recoverErr' = Absent
      /\ outcome' = PendingOutcome

\* handle(request): #route(request.url, {request, waitUntil})
handle(req) ==
  /\ pc \in {"idle", "done"}
  /\ outer = <<>>
  /\ LET base == [NoContext EXCEPT
                    !.request = req,
                    !.waitUntil = [kind |-> "function", name |-> "noop"]]
     IN  startRoute(req.url, base, routes, "routes", <<>>, 1)
  /\ request' = req
  /\ events' = <<>>
  /\ thrown' = FALSE
  /\ UNCHANGED <<config, suspended, tables, outer>>

\* The call of an adapter other than handle, logged with its arguments.
AdapterCall(fn, arguments) == [Call(fn, "none", 0) EXCEPT !.value = arguments]

\* (_f) => {} and fn.bind(this)
Noop == [kind |-> "function", name |-> "noop"]
Bound(fn, this) == [kind |-> "function", name |-> fn, this |-> this]

\* A FetchEvent for the request; `respondWith` lists what respondWith
\* has been called with.
FetchEvent(req) == [kind |-> "FetchEvent", request |-> req, respondWith |-> <<>>]
\* The promise an async function returns, named by the function.
Promise(name) == [kind |-> "promise", name |-> name]

\* respondWith is called again with a promise of its own.
respondWithTwice(event) ==
  [event EXCEPT !.respondWith = <<Promise("#route"), Promise("#route")>>]

\* event.respondWith(promise): the event after the call
respondWith(event) ==
  [event EXCEPT !.respondWith = Append(@, Promise("#route"))]

\* handleEvent(event): event.respondWith(this.#route(event.request.url,
\* {request, waitUntil, event})); #route runs up to its first await before
\* respondWith receives the promise.
handleEvent(event) ==
  /\ pc \in {"idle", "done"}
  /\ outer = <<>>
  /\ LET base == [NoContext EXCEPT
                    !.request = event.request,
                    !.waitUntil = Bound("waitUntil", "event"),
                    !.event = respondWith(event)]
     IN  startRoute(event.request.url, base, routes, "routes",
                    <<AdapterCall("handleEvent",
                                  [kind |-> "arguments", event |-> event])>>, 1)
  /\ request' = event.request
  /\ events' = <<>>
  /\ thrown' = FALSE
  /\ UNCHANGED <<config, suspended, tables, outer>>

\* lines 502-507: the context fetch hands to #route
fetchContext(req, env, c) ==
  [NoContext EXCEPT
     !.request = req,
     !.waitUntil = IF c # Undefined /\ c.waitUntil # Undefined
                   THEN Bound("waitUntil", "ctx") ELSE Noop,
     !.env = env,
     !.ctx = c]

\* fetch(request, env, ctx)
fetch(req, env, c) ==
  /\ pc \in {"idle", "done"}
  /\ outer = <<>>
  /\ startRoute(req.url, fetchContext(req, env, c), routes, "routes",
                <<AdapterCall("fetch", [kind |-> "arguments", request |-> req,
                                        env |-> env, ctx |-> c])>>, 1)
  /\ request' = req
  /\ events' = <<>>
  /\ thrown' = FALSE
  /\ UNCHANGED <<config, suspended, tables, outer>>

\* serveCallback(request, connInfo)
serveCallback(req, connInfo) ==
  /\ pc \in {"idle", "done"}
  /\ outer = <<>>
  /\ LET base == [NoContext EXCEPT
                    !.request = req,
                    !.waitUntil = Noop,
                    !.connInfo = connInfo]
     IN  startRoute(req.url, base, routes, "routes",
                    <<AdapterCall("serveCallback",
                                  [kind |-> "arguments", request |-> req,
                                   connInfo |-> connInfo])>>, 1)
  /\ request' = req
  /\ events' = <<>>
  /\ thrown' = FALSE
  /\ UNCHANGED <<config, suspended, tables, outer>>

\* The locals of the #route call in flight and the objects it created:
\* what belongs to one dispatch.
Frame ==
  [pc |-> pc, outer |-> outer, request |-> request, fqURL |-> fqURL,
   ctx |-> ctx, selected |-> selected, recoverSelected |-> recoverSelected,
   todo |-> todo, awaitable |-> awaitable, response |-> response,
   err |-> err, recoverErr |-> recoverErr, outcome |-> outcome,
   handled |-> handled, calls |-> calls, events |-> events]

\* One context object kept by the router for all its dispatches.
contextOfRouter(frame) == ctx

\* The context object of a #route call: the one handle created for it.
contextOf(frame) == frame.ctx

\* The #route call of the frame goes on from where it was suspended.
Restore(frame) ==
  /\ pc' = frame.pc
  /\ outer' = frame.outer
  /\ request' = frame.request
  /\ fqURL' = frame.fqURL
  /\ ctx' = contextOf(frame)
  /\ selected' = frame.selected
  /\ recoverSelected' = frame.recoverSelected
  /\ todo' = frame.todo
  /\ awaitable' = frame.awaitable
  /\ response' = frame.response
  /\ err' = frame.err
  /\ recoverErr' = frame.recoverErr
  /\ outcome' = frame.outcome
  /\ handled' = frame.handled
  /\ calls' = frame.calls
  /\ events' = frame.events

\* handle(request) while another dispatch is suspended at an await: the
\* #route call in flight waits, the new one runs up to its first await.
\* (The model lets a dispatch be suspended between any two of its steps,
\* which includes every await of the code.)
handleMeanwhile(req) ==
  /\ pc \notin {"idle", "done"}
  /\ outer = <<>>
  /\ suspended = Absent
  /\ suspended' = Frame
  /\ LET base == [NoContext EXCEPT
                    !.request = req,
                    !.waitUntil = [kind |-> "function", name |-> "noop"]]
     IN  startRoute(req.url, base, routes, "routes", <<>>, 1)
  /\ request' = req
  /\ events' = <<>>
  /\ thrown' = FALSE
  /\ UNCHANGED <<config, tables, outer>>

\* The event loop goes on with the other #route call: the one in flight
\* has reached an await or has returned.
switch ==
  /\ suspended # Absent
  /\ pc # "idle"
  /\ suspended' = Frame
  /\ Restore(suspended)
  /\ UNCHANGED <<config, tables, thrown>>

Running == pc \in {"route", "recover"}
\* Whether the #route in flight is the second router's, called from a
\* mount route of the first.
Nested == outer # <<>>
ThisRoutes == IF Nested THEN subRouter.routes ELSE routes
\* The recover routes of the mounting router, for a failure in the mounted
\* router as well.
ParentRecoverRoutes == recoverRoutes
ThisRecoverRoutes == IF Nested THEN subRouter.recoverRoutes ELSE recoverRoutes
\* this.#opts.debug of the router whose #route is running
ThisDebug == IF Nested THEN subRouter.debug ELSE debug
TableName(table) == IF Nested THEN "subRouter." \o table ELSE table
Table == TableName(IF pc = "route" THEN "routes" ELSE "recoverRoutes")
Current == IF pc = "route" THEN selected ELSE recoverSelected

\* The catch block receives a new Error in place of the thrown value.
CaughtReplaced(v) ==
  IF pc = "route"
  THEN /\ pc' = "catch"
       /\ err' = UserError("router")
       /\ UNCHANGED recoverErr
  ELSE /\ pc' = "recoverCatch"
       /\ recoverErr' = UserError("router")
       /\ UNCHANGED err

\* A throw or rejection inside the compiled handler reaches the catch block
\* of the try it was awaited in.
Caught(v) ==
  IF pc = "route"
  THEN /\ pc' = "catch"
       /\ err' = v
       /\ UNCHANGED recoverErr
  ELSE /\ pc' = "recoverCatch"
       /\ recoverErr' = v
       /\ UNCHANGED err

\* What user code throws: a Response or an Error, marked with the stage.
Throwable(stage) == {Response(418, stage), UserError(stage)}

StageName(stage) == IF pc = "route" THEN stage ELSE "recover." \o stage

\* How the argument of a stage stood when the stage was invoked.
Argument == IF awaitable.state = "rejected" THEN "rejected"
            ELSE IF awaitable.settled THEN "settled"
            ELSE "pending"

\* The invocation of a user function, with the argument it was given (how
\* it stood, and the capabilities of the context it resolves to) and how
\* the function came back ("thrown", "rejected", "pending" or "fulfilled").
StageCall(stage, result, v) ==
  [Call(stage, Table, Current) EXCEPT
     !.arg = Argument,
     !.given = IF awaitable.state = "rejected" THEN <<>> ELSE awaitable.caps,
     !.result = result, !.value = v]

\* No result is awaited by the compiled handler.
awaitedNever(chained, how) == how # "async"

\* Whether what a middleware returned has settled when the next stage is
\* invoked: `await this.#middleware(event)` and `await middleware(..)`
\* settle it; in middleware(this.#middleware(event)) the result of the
\* router's middleware is passed on as it is.
awaited(chained, how) == ~(chained /\ how = "async")

\* A middleware stage (the router's #middleware or the route's middleware)
\* is invoked with the awaitable of the stage before it.
\*   how = "ok"      it resolves to the context plus its capability; given
\*                   a rejected awaitable, it catches the rejection
\*   how = "async"   as ok, through a promise still pending on return
\*   how = "effect"  as ok, and it pushes an effect on event.effects
\*   how = "identity" it returns its argument (_ => _)
\*   how = "throw"   it throws synchronously
\*   how = "reject"  it returns an awaitable that rejects, or (for a
\*                   rejected input) the input's rejection passes through
Middleware(stage, how, v) ==
  /\ Running
  /\ todo # <<>>
  /\ Head(todo) = stage
  /\ stage \in {"baseMiddleware", "middleware"}
  /\ LET next == Tail(todo)
         \* middleware(this.#middleware(event)): what the router's
         \* middleware returns is the route middleware's argument, not
         \* awaited in between
         chained == next # <<>> /\ Head(next) = "middleware"
         name == StageName(stage)
         given == IF awaitable.state = "rejected" THEN <<>>
                  ELSE awaitable.caps
     IN  CASE how \in {"ok", "async", "effect"} ->
                /\ v = NoValue
                /\ how = "effect" => awaitable.state # "rejected"
                /\ todo' = next
                /\ awaitable' =
                     [state |-> "fulfilled", value |-> NoValue,
                      caps |-> Append(given, name),
                      settled |-> awaited(chained, how)]
                /\ ctx' = IF how = "effect"
                          THEN [ctx EXCEPT
                                  !.effects.items =
                                    Append(@, Effect(name, ctx.request))]
                          ELSE ctx
                /\ calls' = Append(calls,
                     StageCall(name, IF how = "async" THEN "pending"
                                     ELSE "fulfilled", NoValue))
                /\ UNCHANGED <<pc, err, recoverErr>>
           [] how = "identity" ->
                /\ v = NoValue
                /\ awaitable.state # "rejected"
                /\ todo' = next
                /\ awaitable' = [awaitable EXCEPT
                                   !.settled = @ \/ awaited(chained, "ok")]
                /\ calls' = Append(calls, StageCall(name, "fulfilled", NoValue))
                /\ UNCHANGED <<pc, err, recoverErr, ctx>>
           [] how = "reject" /\ awaitable.state = "rejected" ->
                \* the input is awaited inside the middleware
                /\ v = NoValue
                /\ calls' = Append(calls,
                     StageCall(name, "rejected", awaitable.value))
                /\ Caught(awaitable.value)
                /\ UNCHANGED <<todo, awaitable, ctx>>
           [] how = "reject" /\ awaitable.state # "rejected" /\ chained ->
                /\ v \in Throwable(name)
                /\ todo' = next
                /\ awaitable' = [awaitable EXCEPT
                                   !.state = "rejected", !.value = v]
                /\ calls' = Append(calls, StageCall(name, "rejected", v))
                /\ UNCHANGED <<pc, err, recoverErr, ctx>>
           [] OTHER ->
                /\ how \in {"throw", "reject"}
                /\ v \in Throwable(name)
                /\ calls' = Append(calls,
                     StageCall(name, IF how = "throw" THEN "thrown"
                                     ELSE "rejected", v))
                /\ Caught(v)
                /\ UNCHANGED <<todo, awaitable, ctx>>
  /\ UNCHANGED <<config, suspended, tables, thrown, outer, request, fqURL, selected,
                 recoverSelected, response, outcome, handled, events>>

Hows == {"ok", "async", "throw", "reject"}
Values(stage) == {NoValue} \cup Throwable(stage) \cup Throwable("recover." \o stage)

baseMiddleware == \E how \in Hows, v \in Values("baseMiddleware") :
                    Middleware("baseMiddleware", how, v)
middleware == \E how \in Hows, v \in Values("middleware") :
                Middleware("middleware", how, v)
\* The default of the constructor's middleware parameter, _ => _, and the
\* x => x of the tests.
identity == Middleware("baseMiddleware", "identity", NoValue)
\* A router middleware that pushes an effect on event.effects.
effect == Middleware("baseMiddleware", "effect", NoValue)

\* handler(event.request, ctx): the user handler returns a response or
\* throws (a rejected promise is the same to the awaiting caller).
handler ==
  /\ Running
  /\ todo # <<>>
  /\ Head(todo) = "handler"
  /\ \/ /\ \E status \in {200} \cup (IF pc = "route" THEN {}
                                          ELSE {ctx.response.status}) :
             response' = Response(status, StageName("handler"))
        /\ calls' = Append(calls,
             StageCall(StageName("handler"), "fulfilled", NoValue))
        /\ todo' = Tail(todo)
        /\ UNCHANGED <<pc, err, recoverErr>>
     \/ /\ \E v \in Throwable(StageName("handler")) :
             /\ calls' = Append(calls,
                  StageCall(StageName("handler"), "thrown", v))
             /\ Caught(v)
        /\ UNCHANGED <<todo, response>>
  /\ UNCHANGED <<config, suspended, tables, thrown, outer, request, fqURL, ctx, selected,
                 recoverSelected, awaitable, outcome, handled, events>>

\* values.at(0) in place of values.at(-1)
subPathFirst(values) == values[1]

\* values.at(-1), for a non-empty array
subPath(values) == values[Len(values)]

\* A mount that gives the request back when the second router has no
\* route for it: the lookup goes on with the entries after the mount route.
routeHandlerFallingThrough ==
  /\ pc = "route"
  /\ ~Nested
  /\ todo # <<>>
  /\ Head(todo) = "routeHandler"
  /\ ctx.match # Absent
  /\ ObjectValues(ctx.match.pathname.groups) # <<>>
  /\ LET values == ObjectValues(ctx.match.pathname.groups)
         subURL == newURL(subPath(values), request.url.origin)
         logged == Append(calls, StageCall("routeHandler", "pending", NoValue))
         rest == [i \in 1..Len(routes) |->
                    IF i <= selected
                    THEN Route("NONE", routes[i].pattern, routes[i].handler)
                    ELSE routes[i]]
     IN  IF execPatterns(subURL, request, subRouter.routes) # 0 THEN
           /\ outer' = <<[selected |-> selected, fqURL |-> fqURL,
                          handled |-> handled]>>
           /\ startRoute(subURL, ctx, subRouter.routes, "subRouter.routes",
                         logged, 3)
         ELSE
           /\ outer' = outer
           /\ startRoute(fqURL, ctx, rest, "routes", logged, 1)
  /\ UNCHANGED <<config, suspended, tables, thrown, request, events>>

\* subRouter.#routeHandler(ctx), the compiled handler of a mount route:
\* #route of the sub router on the URL made of the last group value, or a
\* TypeError if the match has no groups.  The #route that called it waits
\* in `outer` for the promise returned.
routeHandler ==
  /\ pc = "route"
  /\ ~Nested
  /\ todo # <<>>
  /\ Head(todo) = "routeHandler"
  /\ LET groups == IF ctx.match = Absent THEN <<>>
                   ELSE ctx.match.pathname.groups
         values == ObjectValues(groups)
     IN  IF values # <<>> THEN
           LET baseURL == request.url.origin
           IN  \E subURL \in {newURL(subPath(values), baseURL)} :
                 /\ outer' = <<[selected |-> selected, fqURL |-> fqURL,
                                handled |-> handled]>>
                 /\ startRoute(subURL, ctx, subRouter.routes,
                               "subRouter.routes",
                               Append(calls,
                                      StageCall("routeHandler", "pending",
                                                NoValue)), 3)
         ELSE
           LET e == TypeError("Pattern not suitable for nested routing. "
                              \o "Did you forget to add a wildcard (*)?")
           IN  /\ calls' = Append(calls, StageCall("routeHandler", "thrown", e))
               /\ Caught(e)
               /\ UNCHANGED <<outer, fqURL, selected, handled, ctx, todo,
                              recoverSelected, awaitable, response, outcome>>
  /\ UNCHANGED <<config, suspended, tables, thrown, request, events>>

\* The promise of the sub router's #route has settled: `await handler(..)`
\* of the waiting #route (line 103) returns its value, after which the
\* waiting #route resolves `handled` and returns it, or throws into its
\* catch block.
resume ==
  /\ Nested
  /\ pc = "done"
  /\ LET frame == outer[Len(outer)]
     IN  /\ outer' = SubSeq(outer, 1, Len(outer) - 1)
         /\ selected' = frame.selected
         /\ fqURL' = frame.fqURL
         /\ IF outcome.type = "returned" THEN
              /\ pc' = "done"
              /\ handled' = "resolved"
              /\ err' = Absent
              /\ UNCHANGED outcome
            ELSE
              /\ pc' = "catch"
              /\ handled' = frame.handled
              /\ err' = outcome.value
              /\ outcome' = PendingOutcome
  /\ recoverSelected' = 0
  /\ recoverErr' = Absent
  /\ todo' = <<>>
  /\ UNCHANGED <<config, suspended, tables, thrown, request, ctx, awaitable, response,
                 calls, events>>

\* The recover routes are looked up after the try block as well, as in a
\* `finally`.
applyEffectsThenRecover ==
  /\ Running
  /\ todo = <<>>
  /\ response # Absent
  /\ outcome' = Returned(executeEffects(ctx.effects, response))
  /\ handled' = IF pc = "route" THEN "resolved" ELSE handled
  /\ pc' = IF pc = "route" THEN "catch" ELSE "done"
  /\ UNCHANGED <<config, suspended, tables, thrown, outer, request, fqURL, ctx, selected,
                 recoverSelected, todo, awaitable, response, err, recoverErr,
                 calls, events>>

\* return executeEffects(event.effects, response), awaited by #route, which
\* in the try block then resolves `handled` and returns the response.
applyEffects ==
  /\ Running
  /\ todo = <<>>
  /\ response # Absent
  /\ outcome' = Returned(executeEffects(ctx.effects, response))
  /\ handled' = IF pc = "route" THEN "resolved" ELSE handled
  /\ pc' = "done"
  /\ UNCHANGED <<config, suspended, tables, thrown, outer, request, fqURL, ctx, selected,
                 recoverSelected, todo, awaitable, response, err, recoverErr,
                 calls, events>>

\* Always the generic response, the caught value as the error.
recoverArgumentsGeneric(e) ==
  [response |-> internalServerError, error |-> e]

\* The caught value wrapped in a new Error.
recoverArgumentsWrapped(e) ==
  IF isResponse(e)
  THEN [response |-> e, error |-> Undefined]
  ELSE [response |-> internalServerError,
        error |-> [kind |-> "Error", by |-> "router", message |-> e.message]]

\* line 113: the response and error a recover handler is given
recoverArguments(e) ==
  IF isResponse(e)
  THEN [response |-> e, error |-> Undefined]
  ELSE [response |-> internalServerError, error |-> e]

\* Rethrows whatever is not a Response, debug mode or not.
unrecoveredRethrows(e) ==
  IF isResponse(e) /\ ~ThisDebug
  THEN [outcome |-> Returned(e), events |-> events]
  ELSE [outcome |-> Thrown(e), events |-> events]

\* Whatever was caught becomes the generic response.
unrecoveredGeneric(e) ==
  IF ThisDebug THEN [outcome |-> Thrown(e), events |-> events]
  ELSE [outcome |-> Returned(internalServerError), events |-> fireError(e)]

\* A caught Response is returned and reported as well.
unrecoveredNotifies(e) ==
  IF ThisDebug THEN [outcome |-> Thrown(e), events |-> events]
  ELSE IF isResponse(e) THEN [outcome |-> Returned(e), events |-> fireError(e)]
  ELSE [outcome |-> Returned(internalServerError), events |-> fireError(e)]

\* lines 125-128: no recover route matches
unrecovered(e) ==
  IF ThisDebug THEN [outcome |-> Thrown(e), events |-> events]
  ELSE IF isResponse(e) THEN [outcome |-> Returned(e), events |-> events]
  ELSE [outcome |-> Returned(internalServerError), events |-> fireError(e)]

\* The two instanceof checks in the other order.
doubleFailureOriginalFirst(e, re) ==
  LET aggregateErr ==
        AggregateError(<<e, re>>,
                       "Route handler as well as recover handler failed")
  IN  IF ThisDebug THEN [outcome |-> Thrown(aggregateErr), events |-> events]
      ELSE IF isResponse(e) THEN [outcome |-> Returned(e), events |-> events]
      ELSE IF isResponse(re) THEN [outcome |-> Returned(re), events |-> events]
      ELSE [outcome |-> Returned(internalServerError),
            events |-> fireError(aggregateErr)]

\* The aggregate lists the recover failure first.
doubleFailureSwapped(e, re) ==
  LET aggregateErr ==
        AggregateError(<<re, e>>,
                       "Route handler as well as recover handler failed")
  IN  IF ThisDebug THEN [outcome |-> Thrown(aggregateErr), events |-> events]
      ELSE IF isResponse(re) THEN [outcome |-> Returned(re), events |-> events]
      ELSE IF isResponse(e) THEN [outcome |-> Returned(e), events |-> events]
      ELSE [outcome |-> Returned(internalServerError),
            events |-> fireError(aggregateErr)]

\* lines 117-122: the recover handler failed as well
doubleFailure(e, re) ==
  LET aggregateErr ==
        AggregateError(<<e, re>>,
                       "Route handler as well as recover handler failed")
  IN  IF ThisDebug THEN [outcome |-> Thrown(aggregateErr), events |-> events]
      ELSE IF isResponse(re) THEN [outcome |-> Returned(re), events |-> events]
      ELSE IF isResponse(e) THEN [outcome |-> Returned(e), events |-> events]
      ELSE [outcome |-> Returned(internalServerError),
            events |-> fireError(aggregateErr)]

\* The effects collected by the failed pass stay in the context.
assignRecoverKeepingEffects(context, match, args, id) ==
  [context EXCEPT
     !.match = match,
     !.handled = [kind |-> "promise", name |-> "handled"],
     !.response = args.response,
     !.error = args.error]

\* The match of the failed route stays in the context.
assignRecoverKeepingMatch(context, match, args, id) ==
  [context EXCEPT
     !.handled = [kind |-> "promise", name |-> "handled"],
     !.response = args.response,
     !.error = args.error,
     !.effects = EffectsList(id)]

\* line 114: Object.assign(ctx, {match, handled, response, error,
\* effects: new EffectsList()})
assignRecover(context, match, args, id) ==
  [context EXCEPT
     !.match = match,
     !.handled = [kind |-> "promise", name |-> "handled"],
     !.response = args.response,
     !.error = args.error,
     !.effects = EffectsList(id)]

\* catch (err): the recover lookup, then either the invocation of the
\* compiled recover handler or the unrecovered outcome.
catch ==
  /\ pc = "catch"
  /\ LET recoverResult == execPatterns(fqURL, request, ThisRecoverRoutes)
     IN  /\ recoverSelected' = recoverResult
         /\ IF recoverResult # 0 THEN
              LET args == recoverArguments(err)
              IN  /\ ctx' = assignRecover(
                            ctx,
                            exec(ThisRecoverRoutes[recoverResult].pattern,
                                 fqURL),
                            args, IF Nested THEN 4 ELSE 2)
                  /\ todo' = ThisRecoverRoutes[recoverResult].handler
                  /\ awaitable' = Event
                  /\ pc' = "recover"
                  /\ calls' = calls \o
                       <<Call("execPatterns", TableName("recoverRoutes"),
                              recoverResult),
                         Call("route.handler", TableName("recoverRoutes"),
                              recoverResult)>>
                  /\ UNCHANGED <<outcome, events>>
            ELSE
              LET r == unrecovered(err)
              IN  /\ outcome' = r.outcome
                  /\ events' = r.events
                  /\ pc' = "done"
                  /\ calls' = Append(calls,
                       Call("execPatterns", TableName("recoverRoutes"), 0))
                  /\ UNCHANGED <<ctx, todo, awaitable>>
  /\ UNCHANGED <<config, suspended, tables, thrown, outer, request, fqURL, selected, response,
                 err, recoverErr, handled>>

\* A failure of the recover handler is looked up in the recover routes
\* again, as a failure of its own.
recoverCatchRetrying ==
  /\ pc = "recoverCatch"
  /\ pc' = "catch"
  /\ err' = recoverErr
  /\ recoverErr' = Absent
  /\ UNCHANGED <<config, suspended, tables, thrown, outer, request, fqURL, ctx,
                 selected, recoverSelected, todo, awaitable, response,
                 outcome, handled, calls, events>>

\* catch (recoverErr)
recoverCatch ==
  /\ pc = "recoverCatch"
  /\ LET r == doubleFailure(err, recoverErr)
     IN  /\ outcome' = r.outcome
         /\ events' = r.events
  /\ pc' = "done"
  /\ UNCHANGED <<config, suspended, tables, thrown, outer, request, fqURL, ctx, selected,
                 recoverSelected, todo, awaitable, response, err, recoverErr,
                 handled, calls>>

-----------------------------------------------------------------------------
(* The router after construction, and its behaviours.                      *)

Locations == {Undefined}

Request(url, method) == [url |-> url, method |-> method]
Requests == {Request(u, m) : u \in URLs, m \in RequestMethods}

\* new WorkerRouter(middleware, opts): empty tables, nothing in flight.
Constructed ==
  /\ debug \in BOOLEAN
  /\ thrown = FALSE
  /\ routes = <<>>
  /\ recoverRoutes = <<>>
  /\ subRouter \in {[routes |-> <<>>, recoverRoutes |-> <<>>, debug |-> d] :
                    d \in BOOLEAN}
  /\ pc = "idle"
  /\ outer = <<>>
  /\ request = Absent
  /\ fqURL = Absent
  /\ ctx = NoContext
  /\ selected = 0
  /\ recoverSelected = 0
  /\ todo = <<>>
  /\ awaitable = NoAwaitable
  /\ response = Absent
  /\ err = Absent
  /\ recoverErr = Absent
  /\ outcome = PendingOutcome
  /\ handled = "none"
  /\ calls = <<>>
  /\ events = <<>>
  /\ suspended = Absent

\* Both routers constructed with the same options.
Init == location \in Locations /\ Constructed /\ subRouter.debug = debug

\* The model registers at most MaxRoutes entries.
Room == Len(routes) + Len(recoverRoutes) < MaxRoutes

Next ==
  \/ \E path \in Paths, argsN \in ArgsN : Room /\ get(path, argsN)
  \/ \E path \in Paths, argsN \in ArgsN : Room /\ any(path, argsN)
  \/ \E path \in Paths, argsN \in ArgsN : Room /\ recover(path, argsN)
  \/ \E req \in Requests : handle(req)
  \/ baseMiddleware
  \/ middleware
  \/ handler
  \/ applyEffects
  \/ catch
  \/ recoverCatch

Spec == Init /\ [][Next]_vars

\* The verb methods, each registering a handler for '/item' as in test
\* 'routes' (get, post, put, patch, delete, options, head, in this order,
\* any of them left out), with any/all registered at most once, anywhere;
\* then requests of every method, one of them in lower case.
Verbs == <<"GET", "POST", "PUT", "PATCH", "DELETE", "OPTIONS", "HEAD">>
Rank(method) ==
  IF \E i \in 1..Len(Verbs) : Verbs[i] = method
  THEN CHOOSE i \in 1..Len(Verbs) : Verbs[i] = method
  ELSE 0
Ordered(method) ==
  \A i \in 1..Len(routes) :
    IF method = "ANY" THEN routes[i].method # "ANY"
    ELSE routes[i].method = "ANY" \/ Rank(routes[i].method) < Rank(method)

VerbRequests ==
  {Request(URL(LocalOrigin, PathItem), m) :
     m \in {Verbs[i] : i \in 1..Len(Verbs)} \cup {"patch"}}

NextVerbs ==
  \/ Ordered("GET") /\ get(PatItem, 2)
  \/ Ordered("POST") /\ post(PatItem, 2)
  \/ Ordered("PUT") /\ put(PatItem, 2)
  \/ Ordered("PATCH") /\ patch(PatItem, 2)
  \/ Ordered("DELETE") /\ delete(PatItem, 2)
  \/ Ordered("OPTIONS") /\ options(PatItem, 2)
  \/ Ordered("HEAD") /\ head(PatItem, 2)
  \/ Ordered("ANY") /\ any(PatItem, 2)
  \/ Ordered("ANY") /\ all(PatItem, 2)
  \/ \E req \in VerbRequests : handle(req)
  \/ baseMiddleware
  \/ handler
  \/ applyEffects
  \/ catch

SpecVerbs == Init /\ [][NextVerbs]_vars

\* Mounting, as test 'delegation' has it: a router that mounts a second
\* one, which has a route '/:type/:id'.  Both routers are constructed with
\* the same options; the second has no recover routes.
PathItemSoap3 == <<"/", "item", "/", "soap", "/", "3">>
PathSaleSoap3 == <<"/", "sale", "/", "soap", "/", "3">>
PathOtherSoap3 == <<"/", "other", "/", "soap", "/", "3">>

\* '/item*', '/(item|sale)/*', '/:kind/*' and '/item'
PatItemStar == <<Lit("/"), Lit("item"), Star>>
PatItemOrSale == <<Lit("/"), Alt("(item|sale)"), Lit("/"), Star>>
PatKindStar == <<Lit("/"), Name("kind"), Lit("/"), Star>>
MountPaths == {PatItemStar, PatItemOrSale, PatKindStar, PatItem}

\* '/:type/:id'
PatTypeId == <<Lit("/"), Name("type"), Lit("/"), Name("id")>>

MountRequests ==
  {Request(URL(LocalOrigin, path), method) :
     path \in {PathItemSoap3, PathSaleSoap3, PathOtherSoap3, PathItem},
     method \in RequestMethods}

\* One entry more than MaxRoutes: a mount, a route of the second router
\* and a recover route fit together.
MountRoom ==
  Len(routes) + Len(recoverRoutes) + Len(subRouter.routes)
    + Len(subRouter.recoverRoutes) < MaxRoutes + 1

NextMount ==
  \/ \E path \in MountPaths : MountRoom /\ use(path)
  \/ \E argsN \in 2..3 : MountRoom /\ subGet(PatTypeId, argsN)
  \/ MountRoom /\ recover(PatAny, 2)
  \/ \E req \in MountRequests : handle(req)
  \/ routeHandler
  \/ resume
  \/ baseMiddleware
  \/ middleware
  \/ handler
  \/ applyEffects
  \/ catch
  \/ recoverCatch

SpecMount == Init /\ [][NextMount]_vars

\* Origins, as tests 'external resources' and 'pattern init' have them: a
\* worker whose location is unknown or http://localhost, routes registered
\* from a bare path and from a full pattern, requests to the worker's own
\* origin and to https://example.com.
ExampleOrigin == Origin("https://example.com")
OriginLocations == {Undefined, LocalOrigin}

PathApiCall == <<"/", "api", "/", "call">>
\* '/api/*'
PatApiStar == <<Lit("/"), Lit("api"), Lit("/"), Star>>

\* 'https://example.com/api/*' and {pathname: '/item*'}
ExampleApi == URLPatternInit(ExampleOrigin, PatApiStar)
Inits == {ExampleApi, URLPatternInit(Undefined, PatItemStar)}

OriginRequests ==
  {Request(URL(origin, path), method) :
     origin \in {LocalOrigin, ExampleOrigin},
     path \in {PathApiCall, PathItem},
     method \in RequestMethods}

InitOrigin ==
  location \in OriginLocations /\ Constructed /\ subRouter.debug = debug

NextOrigin ==
  \/ \E init \in Inits : Room /\ external(init, 2)
  \/ Room /\ externalGET(ExampleApi, 2)
  \/ Room /\ externalPOST(ExampleApi, 2)
  \/ Room /\ externalPUT(ExampleApi, 2)
  \/ Room /\ externalPATCH(ExampleApi, 2)
  \/ Room /\ externalDELETE(ExampleApi, 2)
  \/ Room /\ externalOPTIONS(ExampleApi, 2)
  \/ Room /\ externalHEAD(ExampleApi, 2)
  \/ Room /\ any(PatItem, 2)
  \/ \E req \in OriginRequests : handle(req)
  \/ baseMiddleware
  \/ handler
  \/ applyEffects
  \/ catch

SpecOrigin == InitOrigin /\ [][NextOrigin]_vars

\* Every registration method, between dispatches that go through routes,
\* mounts and recover routes.
ItemStar == URLPatternInit(Undefined, PatItemStar)

NextTables ==
  \/ Room /\ any(PatItemStar, 2)
  \/ Room /\ all(PatItemStar, 2)
  \/ Room /\ get(PatItemStar, 2)
  \/ Room /\ post(PatItemStar, 2)
  \/ Room /\ put(PatItemStar, 2)
  \/ Room /\ patch(PatItemStar, 2)
  \/ Room /\ delete(PatItemStar, 2)
  \/ Room /\ head(PatItemStar, 2)
  \/ Room /\ options(PatItemStar, 2)
  \/ Room /\ external(ItemStar, 2)
  \/ Room /\ externalGET(ItemStar, 2)
  \/ Room /\ externalPOST(ItemStar, 2)
  \/ Room /\ externalPUT(ItemStar, 2)
  \/ Room /\ externalPATCH(ItemStar, 2)
  \/ Room /\ externalDELETE(ItemStar, 2)
  \/ Room /\ externalOPTIONS(ItemStar, 2)
  \/ Room /\ externalHEAD(ItemStar, 2)
  \/ Room /\ use(PatItemStar)
  \/ Room /\ useExternal(ItemStar)
  \/ Room /\ recover(PatAny, 2)
  \/ Room /\ recoverExternal(URLPatternInit(Undefined, PatAny), 2)
  \/ \E path \in {PathItem, PathItemSoap3}, method \in RequestMethods :
        handle(Request(URL(LocalOrigin, path), method))
  \/ routeHandler
  \/ resume
  \/ identity
  \/ handler
  \/ applyEffects
  \/ catch
  \/ recoverCatch

SpecTables == Init /\ [][NextTables]_vars

\* Two dispatches at a time, as the concurrent handle calls of test
\* 'routes' (Promise.all): the second handle is called while the first
\* #route waits at an await, and the two go on in any order.  The router
\* is configured before.
NextConcurrent ==
  \/ \E path \in Paths : Room /\ suspended = Absent /\ get(path, 2)
  \/ Room /\ suspended = Absent /\ recover(PatAny, 2)
  \/ \E req \in Requests : handle(req)
  \/ \E req \in Requests : handleMeanwhile(req)
  \/ switch
  \/ identity
  \/ effect
  \/ handler
  \/ applyEffects
  \/ catch
  \/ recoverCatch

SpecConcurrent == Init /\ [][NextConcurrent]_vars

\* The adapters, as tests 'handle', 'fetch event listener', 'module fetch
\* export' and 'serve callback' have them: a router with the identity
\* middleware and a route for '/item', entered through each adapter.
Env == [kind |-> "object", name |-> "env"]
ExecutionContext == [kind |-> "object", name |-> "ctx", waitUntil |-> Noop]
ConnInfo == [kind |-> "object", name |-> "connInfo"]

NextAdapters ==
  \/ Room /\ get(PatItem, 2)
  \/ \E req \in Requests : handle(req)
  \/ \E req \in Requests : handleEvent(FetchEvent(req))
  \/ \E req \in Requests, env \in {Undefined, Env},
        c \in {Undefined, ExecutionContext} : fetch(req, env, c)
  \/ \E req \in Requests, connInfo \in {Undefined, ConnInfo} :
        serveCallback(req, connInfo)
  \/ identity
  \/ handler
  \/ applyEffects
  \/ catch

SpecAdapters == Init /\ [][NextAdapters]_vars

\* Patterns with named groups, as tests 'patterns', 'multi patterns' and
\* 'ignores search params and hashes' have them, and requests with and
\* without a query string and a fragment.
PathItem3 == <<"/", "item", "/", "3">>
\* '/item/:id', '/item/:type/:id' and '/item/soap/:id'
PatItemId == <<Lit("/"), Lit("item"), Lit("/"), Name("id")>>
PatItemTypeId ==
  <<Lit("/"), Lit("item"), Lit("/"), Name("type"), Lit("/"), Name("id")>>
PatItemSoapId ==
  <<Lit("/"), Lit("item"), Lit("/"), Lit("soap"), Lit("/"), Name("id")>>
MatchPaths == {PatItemId, PatItemTypeId, PatItemSoapId, PatAny}

MatchRequests ==
  {Request(URLWith(LocalOrigin, path, search, hash), "GET") :
     path \in {PathItem3, PathItemSoap3, PathOther},
     search \in {"", "foo=bar"},
     hash \in {"", "L2"}}

NextMatch ==
  \/ \E path \in MatchPaths : Room /\ get(path, 2)
  \/ \E req \in MatchRequests : handle(req)
  \/ identity
  \/ handler
  \/ applyEffects
  \/ catch

SpecMatch == Init /\ [][NextMatch]_vars

-----------------------------------------------------------------------------
(* A router with a mount, recover routes on both routers and a later       *)
(* route of its own; the two routers take their debug options apart.       *)

\* '/item//evil/x': the sub-path after '/item' starts with '//'
PathItemEvil == <<"/", "item", "/", "/", "evil", "/", "x">>

\* The two routers are constructed each with options of its own.
InitBoundary == location \in Locations /\ Constructed

\* Room for a mount, a later route, a route of the second router and a
\* recover route.
BoundaryRoom ==
  Len(routes) + Len(recoverRoutes) + Len(subRouter.routes)
    + Len(subRouter.recoverRoutes) < MaxRoutes + 2

NextBoundary ==
  \/ BoundaryRoom /\ use(PatItemStar)
  \/ BoundaryRoom /\ get(PatAny, 2)
  \/ BoundaryRoom /\ recover(PatAny, 2)
  \/ BoundaryRoom /\ subGet(PatTypeId, 2)
  \/ BoundaryRoom /\ subRecover(PatAny, 2)
  \/ \E path \in {PathItemSoap3, PathItem, PathItemEvil} :
       handle(Request(URL(LocalOrigin, path), "GET"))
  \/ routeHandler
  \/ resume
  \/ identity
  \/ effect
  \/ handler
  \/ applyEffects
  \/ catch
  \/ recoverCatch

SpecBoundary == InitBoundary /\ [][NextBoundary]_vars

\* A router with a mount where what is in flight goes on: every middleware
\* and handler invoked comes back, and the continuation of an await that
\* has settled is run.
NextTermination ==
  \/ BoundaryRoom /\ use(PatItemStar)
  \/ BoundaryRoom /\ get(PatAny, 2)
  \/ BoundaryRoom /\ recover(PatAny, 2)
  \/ \E path \in Paths : BoundaryRoom /\ subGet(path, 2)
  \/ BoundaryRoom /\ subRecover(PatAny, 2)
  \/ \E path \in {PathItemSoap3, PathOther} :
       handle(Request(URL(LocalOrigin, path), "GET"))
  \/ routeHandler
  \/ resume
  \/ identity
  \/ handler
  \/ applyEffects
  \/ catch
  \/ recoverCatch

SpecTermination ==
  /\ InitBoundary
  /\ [][NextTermination]_vars
  /\ WF_vars(routeHandler \/ resume \/ identity \/ handler
               \/ applyEffects \/ catch \/ recoverCatch)

-----------------------------------------------------------------------------
(* Helpers of the properties.                                              *)

\* String.prototype.toLowerCase on the method names the model uses.
toLowerCase(s) ==
  CASE s = "GET" -> "get"
    [] s = "POST" -> "post"
    [] s = "PUT" -> "put"
    [] s = "PATCH" -> "patch"
    [] s = "DELETE" -> "delete"
    [] s = "HEAD" -> "head"
    [] s = "OPTIONS" -> "options"
    [] OTHER -> s

\* The route is for this request: its method is the wildcard or the
\* request's method (compared without regard to case) and its pattern
\* matches the URL.
Matches(route, req, url) ==
  /\ \/ route.method = "ANY"
     \/ toLowerCase(route.method) = toLowerCase(req.method)
  /\ exec(route.pattern, url) # Absent

\* The first entry of the table, in insertion order, that is for this
\* request; 0 when there is none.
FirstMatching(table, req, url) ==
  LET hits == {i \in 1..Len(table) : Matches(table[i], req, url)}
  IN  IF hits = {} THEN 0 ELSE CHOOSE i \in hits : \A j \in hits : i <= j

\* The log entries of calls to fn on entries of the table.
CallsOf(fn, table) ==
  {k \in 1..Len(calls) : calls[k].fn = fn /\ calls[k].table = table}

Dispatching == pc # "idle"

-----------------------------------------------------------------------------
(* C1: first match wins.  The route a dispatch selects is the first entry  *)
(* of #routes, in insertion order, whose method is the wildcard or the     *)
(* request's method and whose pattern matches the URL; every middleware    *)
(* and handler the primary pass invokes belongs to that entry, the handler *)
(* at most once; of two registrations of the same method and pattern the   *)
(* second is never the one selected or run.                                *)
C1_FirstMatchWins ==
  Dispatching =>
    /\ selected = FirstMatching(routes, request, fqURL)
    /\ \A k \in 1..Len(calls) :
         calls[k].table = "routes" => calls[k].route = selected
    /\ Cardinality(CallsOf("handler", "routes")) <= 1
    /\ \A i, j \in 1..Len(routes) :
         (/\ i < j
          /\ routes[i].method = routes[j].method
          /\ routes[i].pattern = routes[j].pattern)
         => /\ selected # j
            /\ \A k \in 1..Len(calls) :
                 calls[k].table = "routes" => calls[k].route # j

\* The same route registered twice, a request it matches: the first
\* registration's handler has run and the dispatch has returned.
C1_Witness ==
  /\ pc = "done"
  /\ Len(routes) = 2
  /\ routes[1] = routes[2]
  /\ selected = 1
  /\ CallsOf("handler", "routes") # {}
  /\ outcome.type = "returned"

(* C2: with debug mode off a dispatch never throws to its caller: whatever *)
(* the base middleware, route middleware, handler, recover middleware or   *)
(* recover handler throw, #route settles with a Response.                  *)
C2_NeverThrows ==
  ~debug =>
    /\ outcome.type # "thrown"
    /\ pc = "done" => outcome.type = "returned" /\ isResponse(outcome.value)

\* Debug off, the route handler threw an Error and the recover handler threw
\* an Error too: the dispatch still returned a Response.
C2_Witness ==
  /\ ~debug
  /\ pc = "done"
  /\ err # Absent /\ ~isResponse(err)
  /\ recoverErr # Absent /\ ~isResponse(recoverErr)
  /\ outcome.type = "returned"
  /\ isResponse(outcome.value)

(* C3: the method filter.  A route registered through a verb method is     *)
(* selected, and its handler run, only for requests whose method is that   *)
(* verb, compared without regard to case; a route registered through       *)
(* any/all is eligible for every method; so no eligible route is passed    *)
(* over, and with one handler per verb a request runs the handler of its   *)
(* own verb and no other.                                                  *)
C3_MethodFilter ==
  Dispatching =>
    /\ selected # 0 =>
         \/ routes[selected].method = "ANY"
         \/ toLowerCase(routes[selected].method) = toLowerCase(request.method)
    /\ \A i \in 1..Len(routes) :
         (/\ \/ routes[i].method = "ANY"
             \/ toLowerCase(routes[i].method) = toLowerCase(request.method)
          /\ exec(routes[i].pattern, fqURL) # Absent)
         => selected \in 1..i
    /\ \A k \in CallsOf("handler", "routes") :
         routes[calls[k].route].method \in {"ANY", toUpperCase(request.method)}
    /\ (\A i \in 1..Len(routes) : routes[i].method # "ANY") =>
         \A k \in CallsOf("handler", "routes") :
           toLowerCase(routes[calls[k].route].method)
             = toLowerCase(request.method)

\* One handler per verb on '/item', a 'patch' request in lower case: the
\* PATCH handler, the fourth registered, has run.
C3_Witness ==
  /\ pc = "done"
  /\ Len(routes) = Len(Verbs)
  /\ \A i \in 1..Len(routes) : routes[i].method = Verbs[i]
  /\ request.method = "patch"
  /\ selected = 4
  /\ \E k \in CallsOf("handler", "routes") : calls[k].route = 4
  /\ outcome.type = "returned"

(* C4: a thrown Response reaches the recover route as context.response.    *)
(* If the selected route's middleware or handler throws a Response R and a *)
(* recover route matches, #route invokes that route's handler exactly      *)
(* once, with response = R and error = undefined in the context; the user  *)
(* function behind it runs at most once, and what it returns is what the   *)
(* dispatch returns.                                                       *)
C4_ThrownResponseRecovered ==
  (selected # 0 /\ recoverSelected # 0 /\ isResponse(err)) =>
    /\ ctx.response = err
    /\ ctx.error = Undefined
    /\ Cardinality(CallsOf("route.handler", "recoverRoutes")) = 1
    /\ Cardinality(CallsOf("recover.handler", "recoverRoutes")) <= 1
    /\ (pc = "done" /\ recoverErr = Absent) =>
         /\ Cardinality(CallsOf("recover.handler", "recoverRoutes")) = 1
         /\ outcome.type = "returned"
         /\ outcome.value.by = "recover.handler"
         /\ outcome.value.status = response.status

\* The handler threw a Response with status 418, a recover route matched,
\* its handler built its response from context.response: the dispatch
\* returned status 418.
C4_Witness ==
  /\ pc = "done"
  /\ selected # 0
  /\ isResponse(err) /\ err.status = 418 /\ err.by = "handler"
  /\ recoverSelected # 0
  /\ ctx.response = err
  /\ outcome.type = "returned"
  /\ outcome.value.by = "recover.handler"
  /\ outcome.value.status = 418

(* C5: any other thrown value reaches the recover route as context.error.  *)
(* If the value caught from the primary pass is not a Response and a       *)
(* recover route matches, the context of the recover handler has           *)
(* response = the router's own internalServerError() and error = the value *)
(* a stage of the primary pass threw, itself.                              *)
C5_ThrownErrorRecovered ==
  (recoverSelected # 0 /\ ~isResponse(err)) =>
    /\ ctx.response = internalServerError
    /\ ctx.response.by = "router"
    /\ ctx.error = err
    /\ ctx.error \in Throwable(err.by)
    /\ CallsOf(err.by, "routes") # {}

\* The route middleware threw an Error and the recover handler has run with
\* it as context.error.
C5_Witness ==
  /\ pc = "done"
  /\ recoverSelected # 0
  /\ err = UserError("middleware")
  /\ ctx.error = err
  /\ ctx.response.status = 500
  /\ CallsOf("recover.handler", "recoverRoutes") # {}

(* C6: recovery is isolated from the router's base middleware.  The base   *)
(* middleware is invoked at most once per dispatch, by the primary pass;   *)
(* after the recover lookup only the recover route's own middleware and    *)
(* handler are invoked.                                                    *)
C6_RecoveryIsolated ==
  /\ CallsOf("recover.baseMiddleware", "recoverRoutes") = {}
  /\ Cardinality(CallsOf("baseMiddleware", "routes")) <= 1
  /\ \A k \in 1..Len(calls) :
       calls[k].table = "recoverRoutes" =>
         /\ calls[k].fn \in {"execPatterns", "route.handler",
                             "recover.middleware", "recover.handler"}
         /\ \A j \in k..Len(calls) : calls[j].table = "recoverRoutes"

\* The base middleware threw; the recover route's middleware and handler
\* ran after it, the base middleware did not run again.
C6_Witness ==
  /\ pc = "done"
  /\ err # Absent /\ err.by = "baseMiddleware"
  /\ Cardinality(CallsOf("baseMiddleware", "routes")) = 1
  /\ CallsOf("recover.middleware", "recoverRoutes") # {}
  /\ CallsOf("recover.handler", "recoverRoutes") # {}
  /\ outcome.type = "returned"

(* C7: double failure with debug mode off.  When the primary pass threw E1 *)
(* and the recover route's pass threw E2, the dispatch returns E2 if E2 is *)
(* a Response, else E1 if E1 is a Response, else it dispatches the error   *)
(* event with the aggregate of [E1, E2] and returns the generic internal   *)
(* server error response.                                                  *)
C7_DoubleFailure ==
  (pc = "done" /\ ~debug /\ recoverErr # Absent) =>
    IF isResponse(recoverErr) THEN outcome = Returned(recoverErr)
    ELSE IF isResponse(err) THEN outcome = Returned(err)
    ELSE /\ outcome = Returned(internalServerError)
         /\ Len(events) = 1
         /\ events[1].error.kind = "AggregateError"
         /\ events[1].error.errors = <<err, recoverErr>>

\* Both passes threw an Error: the event carries the aggregate and the
\* generic response was returned.
C7_Witness ==
  /\ pc = "done"
  /\ ~debug
  /\ err = UserError("handler")
  /\ recoverErr = UserError("recover.handler")
  /\ Len(events) = 1
  /\ events[1].error.errors = <<err, recoverErr>>
  /\ outcome = Returned(internalServerError)

\* No stage of the primary pass has been invoked in this dispatch.
NoPrimaryStage ==
  \A k \in 1..Len(calls) :
    calls[k].table = "routes" => calls[k].fn = "execPatterns"

RecoveryExhausted ==
  /\ err # Absent
  /\ recoverSelected = 0 \/ recoverErr # Absent

\* The failure left unhandled: the caught value, or the aggregate.
UnhandledFailure ==
  IF recoverErr = Absent THEN err
  ELSE AggregateError(<<err, recoverErr>>,
                      "Route handler as well as recover handler failed")

(* C10, unconditional form: the error event is dispatched if and only if   *)
(* debug is off and recovery is exhausted.                                 *)
C10_EventIffExhausted ==
  pc = "done" => (events # <<>> <=> (~debug /\ RecoveryExhausted))

(* C10: the error event is dispatched in a dispatch if and only if debug   *)
(* is off, recovery is exhausted, and neither the value caught from the    *)
(* primary pass nor (on double failure) the value caught from the recover  *)
(* pass is a Response.  It is dispatched at the last step only, exactly    *)
(* once, and carries the caught value, or the aggregate of both on double  *)
(* failure.                                                                *)
C10_EventIffUnhandledError ==
  /\ Len(events) <= 1
  /\ pc # "done" => events = <<>>
  /\ pc = "done" =>
       /\ events # <<>> <=>
            /\ ~debug
            /\ RecoveryExhausted
            /\ ~isResponse(err)
            /\ recoverErr # Absent => ~isResponse(recoverErr)
       /\ events # <<>> => events = <<ErrorEvent(UnhandledFailure)>>

\* A dispatch with debug off in which the handler threw an Error and no
\* recover route matched: one event, carrying that Error.
C10_Witness ==
  /\ pc = "done"
  /\ ~debug
  /\ recoverSelected = 0
  /\ err = UserError("handler")
  /\ events = <<ErrorEvent(err)>>
  /\ outcome = Returned(internalServerError)

-----------------------------------------------------------------------------
(* Listeners.  EventTarget.dispatchEvent calls the listeners registered on *)
(* the object the event is dispatched on; the router is not part of the    *)
(* global scope's event path.                                              *)

\* The calls of a listener added with target.addEventListener('error', ..)
ListenerCalls(target) == SelectSeq(events, LAMBDA e : e.target = target)

(* C11: with debug off, a handler throwing an Error and no matching        *)
(* recover route, a listener added with router.addEventListener('error',   *)
(* listener) is called exactly once, with an ErrorEvent whose message is   *)
(* the Error's message, and the dispatch returns the internal server error *)
(* response.                                                               *)
C11_RouterListenerCalled ==
  (pc = "done" /\ ~debug /\ selected # 0 /\ recoverSelected = 0
     /\ err = UserError("handler")) =>
    /\ Len(ListenerCalls("router")) = 1
    /\ ListenerCalls("router")[1].message = err.message
    /\ outcome = Returned(internalServerError)

(* C12: debug mode lets unrecovered failures through.  With debug on, a    *)
(* dispatch whose primary pass threw E1 rejects with E1 itself when no     *)
(* recover route matches, and rejects with an AggregateError whose errors  *)
(* are [E1, E2] when the matching recover route's pass threw E2; in both   *)
(* cases nothing is returned and no error event is dispatched.             *)
C12_DebugPropagates ==
  (pc = "done" /\ debug /\ RecoveryExhausted) =>
    /\ outcome.type = "thrown"
    /\ events = <<>>
    /\ recoverErr = Absent => outcome.value = err
    /\ recoverErr # Absent =>
         /\ outcome.value.kind = "AggregateError"
         /\ outcome.value.errors = <<err, recoverErr>>

\* Debug is on, the handler threw an Error and the recover handler threw
\* another: the dispatch rejected with the aggregate of both, in order.
C12_Witness ==
  /\ pc = "done"
  /\ debug
  /\ err = UserError("handler")
  /\ recoverErr = UserError("recover.handler")
  /\ outcome.type = "thrown"
  /\ outcome.value.errors = <<err, recoverErr>>
  /\ events = <<>>

-----------------------------------------------------------------------------
(* Composition of the stages of a regular route.                           *)

\* The stage functions invoked by the primary pass, in order of invocation.
StagesCalled ==
  SelectSeq(calls, LAMBDA c : c.table = "routes"
                              /\ c.fn \in {"baseMiddleware", "middleware",
                                           "handler"})

\* Position of a stage in the order of invocation, 0 if it was not invoked.
CalledAt(stage) ==
  IF \E k \in 1..Len(StagesCalled) : StagesCalled[k].fn = stage
  THEN CHOOSE k \in 1..Len(StagesCalled) : StagesCalled[k].fn = stage
  ELSE 0

\* The selected route was registered with a middleware of its own.
HasMiddleware ==
  selected # 0 /\ \E k \in 1..Len(routes[selected].handler) :
                     routes[selected].handler[k] = "middleware"

(* C13: stage order.  In one dispatch each stage function is invoked at    *)
(* most once; the router's base middleware is invoked first, then the      *)
(* route's middleware if the route was registered with one, given what the *)
(* base middleware returned, then the handler, given the context the last  *)
(* middleware stage resolved to: that context carries the capability the   *)
(* route middleware added.                                                 *)
C13_StageOrder ==
  /\ \A j, k \in 1..Len(StagesCalled) :
       StagesCalled[j].fn = StagesCalled[k].fn => j = k
  /\ CalledAt("middleware") # 0 =>
       /\ HasMiddleware
       /\ CalledAt("baseMiddleware") = 1
       /\ CalledAt("middleware") = 2
  /\ CalledAt("handler") # 0 =>
       /\ CalledAt("baseMiddleware") = 1
       /\ CalledAt("handler") = Len(routes[selected].handler)
       /\ HasMiddleware => CalledAt("middleware") = 2
       /\ LET given == StagesCalled[CalledAt("handler")].given
          IN  /\ given # <<>>
              /\ given[Len(given)] =
                   IF HasMiddleware THEN "middleware" ELSE "baseMiddleware"

\* A route registered with a middleware was dispatched to the end: the base
\* middleware, the route middleware and the handler ran in this order and
\* the handler's context has both capabilities.
C13_Witness ==
  /\ pc = "done"
  /\ HasMiddleware
  /\ Len(StagesCalled) = 3
  /\ StagesCalled[1].fn = "baseMiddleware"
  /\ StagesCalled[2].fn = "middleware"
  /\ StagesCalled[3].fn = "handler"
  /\ StagesCalled[2].given = <<"baseMiddleware">>
  /\ StagesCalled[3].given = <<"baseMiddleware", "middleware">>
  /\ outcome.type = "returned"
  /\ outcome.value.status = 200

(* C14, unconditional form: no stage is invoked before the awaitable of    *)
(* the stage before it has settled.                                        *)
C14_NoStageBeforeSettled ==
  \A k \in 1..Len(StagesCalled) : StagesCalled[k].arg # "pending"

(* C14: the handler is never invoked before the awaitable of the last      *)
(* middleware stage has fulfilled, and on a route without a middleware of  *)
(* its own that is the awaitable of the base middleware.  On a route with  *)
(* a middleware the route middleware is invoked right after the base       *)
(* middleware returned, with the awaitable it returned as the argument,    *)
(* whether that has settled or not: awaiting it is left to the route       *)
(* middleware.                                                             *)
C14_HandlerAfterSettled ==
  /\ CalledAt("handler") # 0 =>
       /\ StagesCalled[CalledAt("handler")].arg = "settled"
       /\ StagesCalled[CalledAt("handler") - 1].result
            \in {"fulfilled", "pending"}
  /\ CalledAt("middleware") # 0 =>
       LET base == StagesCalled[CalledAt("baseMiddleware")]
           mw == StagesCalled[CalledAt("middleware")]
       IN  /\ base.result = "pending" <=> mw.arg = "pending"
           /\ base.result = "rejected" <=> mw.arg = "rejected"
           /\ base.result = "fulfilled" <=> mw.arg = "settled"
  /\ (CalledAt("baseMiddleware") # 0 /\ ~HasMiddleware) =>
       \A k \in 2..Len(StagesCalled) : StagesCalled[k].arg = "settled"

\* The base middleware returned a pending promise, the route middleware was
\* invoked with it, and the handler ran once the route middleware's
\* awaitable had fulfilled.
C14_Witness ==
  /\ pc = "done"
  /\ Len(StagesCalled) = 3
  /\ StagesCalled[1].result = "pending"
  /\ StagesCalled[2].fn = "middleware"
  /\ StagesCalled[2].arg = "pending"
  /\ StagesCalled[3].fn = "handler"
  /\ StagesCalled[3].arg = "settled"
  /\ outcome.type = "returned"

\* Stage call k of the primary pass is a middleware that threw, or whose
\* awaitable rejected.
MiddlewareFailed(k) ==
  /\ StagesCalled[k].fn \in {"baseMiddleware", "middleware"}
  /\ StagesCalled[k].result \in {"thrown", "rejected"}

(* C15, unconditional form: once a middleware stage has thrown or its      *)
(* awaitable has rejected, no later stage is invoked and the value is what *)
(* the failure path receives.                                              *)
C15_FailureAbortsAlways ==
  \A k \in 1..Len(StagesCalled) :
    MiddlewareFailed(k) =>
      /\ k = Len(StagesCalled)
      /\ pc # "route" => err = StagesCalled[k].value

(* C15: a middleware failure aborts the composition it is awaited in.  If  *)
(* the base middleware throws synchronously, or the route middleware       *)
(* throws or its awaitable rejects, or the base middleware's awaitable     *)
(* rejects on a route without a middleware of its own, no later stage is   *)
(* invoked and the value is what the catch block receives.  On a route     *)
(* with a middleware, a rejecting awaitable of the base middleware is the  *)
(* route middleware's argument: the route middleware is invoked with it,   *)
(* the handler is invoked only if the route middleware resolves all the    *)
(* same, and the catch block receives what the route middleware throws or  *)
(* rejects with, the base middleware's value if it lets it pass.           *)
C15_FailureAborts ==
  \A k \in 1..Len(StagesCalled) :
    MiddlewareFailed(k) =>
      IF StagesCalled[k].fn = "baseMiddleware"
         /\ StagesCalled[k].result = "rejected" /\ HasMiddleware
      THEN /\ pc # "route" => Len(StagesCalled) > k
           /\ Len(StagesCalled) > k =>
                /\ StagesCalled[k + 1].fn = "middleware"
                /\ StagesCalled[k + 1].arg = "rejected"
                /\ StagesCalled[k + 1].given = <<>>
                /\ StagesCalled[k + 1].result = "rejected" =>
                     StagesCalled[k + 1].value = StagesCalled[k].value
                /\ Len(StagesCalled) > k + 1 =>
                     StagesCalled[k + 1].result \in {"fulfilled", "pending"}
      ELSE /\ k = Len(StagesCalled)
           /\ pc # "route" => err = StagesCalled[k].value

\* The base middleware's awaitable rejected with a Response on a route with
\* a middleware: the route middleware was invoked with it and let it pass,
\* the handler was not invoked and the recover route was given that
\* Response.
C15_Witness ==
  /\ pc = "done"
  /\ Len(StagesCalled) = 2
  /\ StagesCalled[1].fn = "baseMiddleware"
  /\ StagesCalled[1].result = "rejected"
  /\ StagesCalled[2].fn = "middleware"
  /\ StagesCalled[2].arg = "rejected"
  /\ StagesCalled[2].result = "rejected"
  /\ err = StagesCalled[1].value
  /\ isResponse(err)
  /\ recoverSelected # 0
  /\ ctx.response = err

-----------------------------------------------------------------------------
(* Registration.                                                           *)

\* A call of one of the registration methods with argsN arguments.
Registration(path, argsN) ==
  \/ any(path, argsN) \/ all(path, argsN) \/ get(path, argsN)
  \/ post(path, argsN) \/ put(path, argsN) \/ patch(path, argsN)
  \/ delete(path, argsN) \/ head(path, argsN) \/ options(path, argsN)
  \/ recover(path, argsN)

\* Table `after` is table `before` with `n` entries appended.
Appended(before, after, n) ==
  /\ Len(after) = Len(before) + n
  /\ SubSeq(after, 1, Len(before)) = before

(* C16: registration arity.  A registration call with 2 or 3 arguments     *)
(* returns and has appended exactly one entry, to one of the two tables,   *)
(* leaving the entries before it as they were; a call with any other       *)
(* number of arguments throws and leaves both tables unchanged.            *)
C16_RegistrationArity ==
  [][\A path \in Paths, argsN \in ArgsN :
       Registration(path, argsN) =>
         IF argsN \in {2, 3}
         THEN /\ ~thrown'
              /\ \/ Appended(routes, routes', 1) /\ UNCHANGED recoverRoutes
                 \/ Appended(recoverRoutes, recoverRoutes', 1)
                      /\ UNCHANGED routes
         ELSE /\ thrown'
              /\ UNCHANGED tables]_vars

\* A registration call with a wrong number of arguments has thrown, after
\* a call that registered a route.
C16_Witness ==
  /\ thrown
  /\ pc = "idle"
  /\ Len(routes) + Len(recoverRoutes) = 1

-----------------------------------------------------------------------------
(* Mounting.                                                               *)

\* The route of the first router the dispatch in flight selected.
OuterSelected == IF Nested THEN outer[1].selected ELSE selected

\* The dispatch selected a mount route.
MountSelected ==
  /\ OuterSelected # 0
  /\ LET compiled == routes[OuterSelected].handler
     IN  compiled[Len(compiled)] = "routeHandler"

\* The groups of the selected mount route are all unnamed.
UnnamedGroups ==
  \A k \in 1..Len(routes[OuterSelected].pattern.pathname) :
    routes[OuterSelected].pattern.pathname[k].t # "name"

\* The mount pattern ends in a wildcard.
EndsInWildcard ==
  LET pathname == routes[OuterSelected].pattern.pathname
  IN  pathname[Len(pathname)] = Star

\* A path as the pathname of a URL: it starts at the root.
Rooted(path) ==
  IF path # <<>> /\ Head(path) = "/" THEN path ELSE <<"/">> \o path

\* What the trailing wildcard of the selected mount pattern stands for in
\* the request's pathname: every token before it stands for one atom.
Remaining ==
  LET pathname == routes[OuterSelected].pattern.pathname
  IN  SubSeq(request.url.pathname, Len(pathname), Len(request.url.pathname))

\* The functions of the second router that were invoked.
SubCalls == SelectSeq(calls, LAMBDA c : c.table = "subRouter.routes"
                                        \/ c.table = "subRouter.recoverRoutes")

(* C17: mount delegation.  The second router is dispatched into only from  *)
(* a mount route whose pattern matches the request URL, and for a request  *)
(* of any method; for a mount pattern with a trailing wildcard and unnamed *)
(* groups ('/item*', '/(item|sale)/*') the URL it matches against is the   *)
(* remaining sub-path, and the handler of its matching route receives the  *)
(* match of that sub-path.                                                 *)
C17_MountDelegation ==
  /\ SubCalls # <<>> =>
       /\ MountSelected
       /\ exec(routes[OuterSelected].pattern, request.url) # Absent
  /\ (MountSelected /\ EndsInWildcard /\ Dispatching
        /\ (Nested \/ pc # "route")) =>
       /\ SubCalls # <<>>
       /\ SubCalls[1].fn = "execPatterns"
  /\ (Nested /\ EndsInWildcard /\ UnnamedGroups) =>
       /\ fqURL = URL(request.url.origin, Rooted(Remaining))
       /\ CallsOf("handler", "subRouter.routes") # {} =>
            /\ selected # 0
            /\ ctx.match = exec(subRouter.routes[selected].pattern, fqURL)
            /\ ctx.match.pathname.input = Rooted(Remaining)

\* '/(item|sale)/*' is mounted and a GET of '/sale/soap/3' reached
\* the handler of '/:type/:id' with groups type = 'soap', id = '3'.
C17_Witness ==
  /\ pc = "done"
  /\ ~Nested
  /\ MountSelected
  /\ routes[selected].pattern.pathname = PatItemOrSale
  /\ request.url.pathname = PathSaleSoap3
  /\ CallsOf("handler", "subRouter.routes") # {}
  /\ ctx.match.pathname.groups =
       <<[key |-> "type", value |-> <<"soap">>],
         [key |-> "id", value |-> <<"3">>]>>
  /\ outcome.type = "returned"
  /\ outcome.value.status = 200

(* C18: the sub-path of a mount.  For a mount pattern that ends in a       *)
(* wildcard, whatever groups come before it, the URL the second router     *)
(* matches against is the part of the pathname the trailing wildcard       *)
(* matched.                                                                *)
C18_SubPathIsWildcardMatch ==
  (Nested /\ EndsInWildcard) =>
    fqURL = URL(request.url.origin, Rooted(Remaining))

\* #routeHandler has thrown in this dispatch.
RouteHandlerThrew ==
  \E k \in 1..Len(calls) : /\ calls[k].fn = "routeHandler"
                           /\ calls[k].result = "thrown"

C20_MountSkipsMiddleware ==
  MountSelected =>
    /\ \A k \in 1..Len(calls) :
         calls[k].table = "routes" =>
           calls[k].fn \in {"execPatterns", "route.handler", "routeHandler"}
    /\ \A k \in CallsOf("handler", "subRouter.routes") :
         /\ CallsOf("baseMiddleware", "subRouter.routes") # {}
         /\ \A j \in 1..(k - 1) :
              calls[j].result # "none" =>
                /\ calls[j].fn \in {"routeHandler", "baseMiddleware",
                                    "middleware"}
                /\ calls[j].fn # "routeHandler" =>
                     calls[j].table = "subRouter.routes"

\* A request went through a mount into a route of the second router that
\* has a middleware: the second router's base middleware, the route's
\* middleware and the handler were invoked, nothing of the first router's.
C20_Witness ==
  /\ pc = "done"
  /\ ~Nested
  /\ MountSelected
  /\ CallsOf("baseMiddleware", "routes") = {}
  /\ CallsOf("baseMiddleware", "subRouter.routes") # {}
  /\ CallsOf("middleware", "subRouter.routes") # {}
  /\ CallsOf("handler", "subRouter.routes") # {}
  /\ outcome.type = "returned"
  /\ outcome.value.status = 200

-----------------------------------------------------------------------------
\* Whether the pathname starts with the atoms of the prefix.
StartsWith(pathname, prefix) ==
  /\ Len(pathname) >= Len(prefix)
  /\ SubSeq(pathname, 1, Len(prefix)) = prefix

(* C21: a route registered with external(init, ..) uses the given pattern  *)
(* as it is, not anchored to the ambient origin.  The route for            *)
(* 'https://example.com/api/*' is selected only for requests to that       *)
(* origin under /api/ (and, for a verb form, of that method), and such a   *)
(* request selects it unless an earlier entry took it; requests to another *)
(* origin with the same path, or to the same origin with another path, do  *)
(* not select it.  The route for {pathname: '/item*'} is selected for a    *)
(* matching path on any origin, whatever the worker's location.            *)
C21_ExternalAsGiven ==
  Dispatching =>
    \A i \in 1..Len(routes) :
      LET r == routes[i]
          api == /\ request.url.origin = ExampleOrigin
                 /\ StartsWith(request.url.pathname, <<"/", "api", "/">>)
                 /\ r.method \in {"ANY", request.method}
          item == StartsWith(request.url.pathname, <<"/", "item">>)
      IN  /\ r.pattern.pathname = PatApiStar =>
               /\ selected = i => api
               /\ api => selected \in 1..i
          /\ r.pattern.pathname = PatItemStar =>
               /\ selected = i => item
               /\ item => selected \in 1..i

\* A worker at http://localhost with externalGET('https://example.com/api/*')
\* has answered GET https://example.com/api/call from that route's handler.
C21_Witness ==
  /\ pc = "done"
  /\ location = LocalOrigin
  /\ Len(routes) >= 1
  /\ routes[1].method = "GET"
  /\ routes[1].pattern.pathname = PatApiStar
  /\ request = Request(URL(ExampleOrigin, PathApiCall), "GET")
  /\ selected = 1
  /\ outcome = Returned(Response(200, "handler"))

(* C22: a route registered from a bare path is anchored to the worker's    *)
(* location when it is known: it is selected only for requests to that     *)
(* scheme, host and port, never for a request to another origin with the   *)
(* same pathname.  When the location is not known the route is selected    *)
(* for a matching pathname on any origin.                                  *)
C22_AnchoredToLocation ==
  Dispatching =>
    \A i \in 1..Len(routes) :
      LET pathOk == request.url.pathname = PathItem
          sameOrigin == request.url.origin = location
      IN  routes[i].pattern.pathname = PatItem =>
            IF location # Undefined
            THEN /\ selected = i => (sameOrigin /\ pathOk)
                 /\ (sameOrigin /\ pathOk) => selected \in 1..i
            ELSE /\ selected = i => pathOk
                 /\ pathOk => selected \in 1..i

\* A worker at http://localhost with any('/item') has answered a request
\* for https://example.com/item with the not-found response.
C22_Witness ==
  /\ pc = "done"
  /\ location = LocalOrigin
  /\ Len(routes) = 1
  /\ routes[1].pattern.pathname = PatItem
  /\ request.url = URL(ExampleOrigin, PathItem)
  /\ selected = 0
  /\ outcome = Returned(notFound)

-----------------------------------------------------------------------------
\* Object.keys(context): the keys the object has.
Keys(context) == {k \in DOMAIN context : context[k] # Absent}

\* The adapter the dispatch was started through.
Adapter == IF calls # <<>> /\ calls[1].table = "none"
           THEN calls[1].fn ELSE "handle"

\* The entries of the log for invocations of the primary handler.
HandlerCalls == CallsOf("handler", "routes")

(* C23: for a dispatch started by handle(request) on a router with the     *)
(* identity middleware, the context the handler is invoked with has        *)
(* exactly the keys request, waitUntil, match, handled and effects: the    *)
(* base context with the match of the selected route, a new EffectsList    *)
(* and the completion signal; its request is the request dispatched.       *)
C23_HandlerContext ==
  (pc = "route" /\ Adapter = "handle" /\ HandlerCalls # {}) =>
    /\ \A k \in HandlerCalls : calls[k].given = <<>>
    /\ Keys(ctx) = {"request", "waitUntil", "match", "handled", "effects"}
    /\ ctx.request = request
    /\ ctx.waitUntil.kind = "function"
    /\ ctx.match = exec(routes[selected].pattern, request.url)
    /\ ctx.effects = EffectsList(1)
    /\ ctx.handled = Promise("handled")

\* handle(GET /item) on a router with get('/item', handler): the handler
\* has been invoked and has returned its response.
C23_Witness ==
  /\ pc = "route"
  /\ Adapter = "handle"
  /\ request = Request(URL(LocalOrigin, PathItem), "GET")
  /\ HandlerCalls # {}
  /\ response = Response(200, "handler")

(* C24: every adapter call makes one dispatch, on the URL of the request   *)
(* given.  handleEvent calls event.respondWith once, with the promise of   *)
(* the dispatch, and the context has the event and its waitUntil bound to  *)
(* it; fetch puts the env it was given and a waitUntil function in the     *)
(* context; serveCallback puts connInfo in the context.  The handler of    *)
(* the matched route is invoked at most once per call, once when the       *)
(* dispatch returns the handler's response, which is then the adapter's    *)
(* result.                                                                 *)
C24_AdaptersDispatchOnce ==
  Dispatching =>
    /\ Cardinality(CallsOf("execPatterns", "routes")) = 1
    /\ fqURL = request.url
    /\ Cardinality(HandlerCalls) <= 1
    /\ Adapter = "handleEvent" =>
         /\ request = calls[1].value.event.request
         /\ ctx.event.respondWith = <<Promise("#route")>>
         /\ [ctx.event EXCEPT !.respondWith = <<>>] = calls[1].value.event
         /\ ctx.waitUntil = Bound("waitUntil", "event")
    /\ Adapter = "fetch" =>
         /\ request = calls[1].value.request
         /\ ctx.env = calls[1].value.env
         /\ ctx.waitUntil.kind = "function"
    /\ Adapter = "serveCallback" =>
         /\ request = calls[1].value.request
         /\ ctx.connInfo = calls[1].value.connInfo
    /\ (pc = "done" /\ selected # 0 /\ err = Absent) =>
         /\ Cardinality(HandlerCalls) = 1
         /\ outcome = Returned(response)
         /\ response.by = "handler"

\* fetch(GET /item, env, ctx) has returned the response of the handler of
\* get('/item'), which was given env.
C24_Witness ==
  /\ pc = "done"
  /\ Adapter = "fetch"
  /\ calls[1].value.env = Env
  /\ ctx.env = Env
  /\ ctx.waitUntil = Bound("waitUntil", "ctx")
  /\ Cardinality(HandlerCalls) = 1
  /\ outcome = Returned(Response(200, "handler"))

-----------------------------------------------------------------------------
\* groups[key], for a key the groups have
GroupValue(groups, key) ==
  groups[CHOOSE k \in 1..Len(groups) : groups[k].key = key].value

\* The keys of the groups a pathname pattern has, in the order of the
\* pattern: the name of a named group, the position of an unnamed one.
RECURSIVE GroupKeys(_, _)
GroupKeys(tokens, n) ==
  IF tokens = <<>> THEN <<>>
  ELSE LET tok == Head(tokens)
       IN  CASE tok.t = "lit" -> GroupKeys(Tail(tokens), n)
             [] tok.t = "name" -> <<tok.v>> \o GroupKeys(Tail(tokens), n)
             [] OTHER -> <<ToString(n)>> \o GroupKeys(Tail(tokens), n + 1)

\* The pathname pattern with every group replaced by its value.
RECURSIVE Fill(_, _, _)
Fill(tokens, groups, n) ==
  IF tokens = <<>> THEN <<>>
  ELSE LET tok == Head(tokens)
       IN  CASE tok.t = "lit" -> <<tok.v>> \o Fill(Tail(tokens), groups, n)
             [] tok.t = "name" ->
                  GroupValue(groups, tok.v) \o Fill(Tail(tokens), groups, n)
             [] OTHER ->
                  GroupValue(groups, ToString(n))
                  \o Fill(Tail(tokens), groups, n + 1)

(* C25: the match in the handler's context is the result of the selected   *)
(* route's pattern on the URL of the dispatch: pathname.input is the       *)
(* pathname of the URL, the groups are those of the pattern, and each      *)
(* group's value is the part of the pathname it matched (the pattern with  *)
(* the values filled in is the pathname; a named group spans no "/").      *)
C25_MatchOfSelected ==
  (pc = "route" /\ HandlerCalls # {}) =>
    LET pathname == routes[selected].pattern.pathname
        groups == ctx.match.pathname.groups
    IN  /\ ctx.match.pathname.input = request.url.pathname
        /\ [k \in 1..Len(groups) |-> groups[k].key] = GroupKeys(pathname, 0)
        /\ Fill(pathname, groups, 0) = request.url.pathname
        /\ \A k \in 1..Len(pathname) :
             pathname[k].t = "name" =>
               \A a \in 1..Len(GroupValue(groups, pathname[k].v)) :
                 GroupValue(groups, pathname[k].v)[a] # "/"

\* '/item/:type/:id' on '/item/soap/3': the handler was given type = 'soap'
\* and id = '3'.
C25_Witness ==
  /\ pc = "route"
  /\ HandlerCalls # {}
  /\ routes[selected].pattern.pathname = PatItemTypeId
  /\ request.url = URL(LocalOrigin, PathItemSoap3)
  /\ ctx.match.pathname.input = PathItemSoap3
  /\ ctx.match.pathname.groups =
       <<[key |-> "type", value |-> <<"soap">>],
         [key |-> "id", value |-> <<"3">>]>>

\* The URL without its query string and fragment.
Bare(url) == URL(url.origin, url.pathname)

(* C26: for routes registered from a bare path, the query string and the   *)
(* fragment of the request URL do not affect which route is selected and   *)
(* are not in the pathname groups: the route selected, and the pathname    *)
(* part of the match, are those of the same URL without query string and   *)
(* fragment.                                                               *)
C26_SearchAndHashIgnored ==
  Dispatching =>
    /\ selected = FirstMatching(routes, request, Bare(request.url))
    /\ (pc = "route" /\ selected # 0) =>
         /\ ctx.match.pathname =
              exec(routes[selected].pattern, Bare(request.url)).pathname
         /\ \A k \in 1..Len(ctx.match.pathname.groups) :
              \A a \in 1..Len(ctx.match.pathname.groups[k].value) :
                ctx.match.pathname.groups[k].value[a]
                  \notin {"?", "#", request.url.search, request.url.hash}

\* '/item/soap/3?foo=bar#L2' against '/item/soap/:id': the handler was
\* given id = '3'.
C26_Witness ==
  /\ pc = "route"
  /\ HandlerCalls # {}
  /\ routes[selected].pattern.pathname = PatItemSoapId
  /\ request.url = URLWith(LocalOrigin, PathItemSoap3, "foo=bar", "L2")
  /\ ctx.match.pathname.groups = <<[key |-> "id", value |-> <<"3">>]>>

-----------------------------------------------------------------------------
\* A call of a method that registers in the primary table: a verb method,
\* any / all, external*, use or useExternal.
PrimaryRegistration ==
  \/ \E path \in {PatItemStar} :
       \/ Registration(path, 2) /\ ~recover(path, 2)
       \/ use(path)
  \/ \E init \in {ItemStar} :
       \/ external(init, 2) \/ externalGET(init, 2) \/ externalPOST(init, 2)
       \/ externalPUT(init, 2) \/ externalPATCH(init, 2)
       \/ externalDELETE(init, 2) \/ externalOPTIONS(init, 2)
       \/ externalHEAD(init, 2)
       \/ useExternal(init)

\* A call of recover or recoverExternal.
RecoveryRegistration ==
  \/ recover(PatAny, 2)
  \/ recoverExternal(URLPatternInit(Undefined, PatAny), 2)

(* C27: the route tables are append-only.  A registration through a verb   *)
(* method, any / all, external*, use or useExternal appends one entry at   *)
(* the end of the primary table and leaves the recovery table alone;       *)
(* recover and recoverExternal append one entry at the end of the recovery *)
(* table and leave the primary table alone; the entries that were there    *)
(* stay as they were, in their order; a step of a dispatch changes neither *)
(* table.                                                                  *)
C27_AppendOnly ==
  [][/\ PrimaryRegistration =>
          Appended(routes, routes', 1) /\ UNCHANGED recoverRoutes
     /\ RecoveryRegistration =>
          Appended(recoverRoutes, recoverRoutes', 1) /\ UNCHANGED routes
     /\ pc' # "idle" => UNCHANGED <<routes, recoverRoutes>>
     /\ \E n \in 0..1 : Appended(routes, routes', n)
     /\ \E n \in 0..1 : Appended(recoverRoutes, recoverRoutes', n)]_vars

\* A route and a recover route were registered, each in its table, and a
\* dispatch has gone through both.
C27_Witness ==
  /\ pc = "done"
  /\ Len(routes) = 1
  /\ Len(recoverRoutes) = 1
  /\ CallsOf("handler", "routes") # {}
  /\ CallsOf("recover.handler", "recoverRoutes") # {}

-----------------------------------------------------------------------------
\* The entries of the log that are a lookup in #recoverRoutes or an
\* invocation of a recover route's handler or middleware.
RecoveryCalls == {k \in 1..Len(calls) : calls[k].table = "recoverRoutes"}

\* The k-th logged call is a failure of the primary pass: a lookup in
\* #routes that found nothing (notFound() is thrown) or a middleware or
\* handler of the route that threw or rejected.
PrimaryFailure(k) ==
  /\ calls[k].table = "routes"
  /\ \/ calls[k].fn = "execPatterns" /\ calls[k].route = 0
     \/ calls[k].result \in {"thrown", "rejected"}

(* C28: the recovery table is consulted only after a value was thrown      *)
(* during the primary pass.  Every lookup in #recoverRoutes and every      *)
(* invocation of a recover middleware or handler comes after a failure of  *)
(* the primary pass, with the thrown value caught; a dispatch whose        *)
(* lookup, middleware, handler and effects complete without a throw makes  *)
(* no such call.                                                           *)
C28_RecoveryOnlyAfterThrow ==
  /\ \A k \in RecoveryCalls :
       /\ err # Absent
       /\ \E j \in 1..(k - 1) : PrimaryFailure(j)
  /\ (pc \in {"catch", "recover", "recoverCatch"} \/ recoverSelected # 0) =>
       err # Absent
  /\ (pc = "done" /\ err = Absent) =>
       /\ RecoveryCalls = {}
       /\ recoverSelected = 0

\* A dispatch has returned the handler's response; a recover route that
\* matches the request is registered and was not looked up.
C28_Witness ==
  /\ pc = "done"
  /\ outcome = Returned(Response(200, "handler"))
  /\ Len(recoverRoutes) = 1
  /\ Matches(recoverRoutes[1], request, fqURL)
  /\ RecoveryCalls = {}

-----------------------------------------------------------------------------
(* C29: completion signal.  When a dispatch has returned a Response to its *)
(* caller (from the primary handler, from a recover handler, or as the     *)
(* thrown Response or the internal-error fallback), the `handled` promise  *)
(* placed in its context is resolved; nothing can resolve it later, the    *)
(* resolver being local to the #route call that has returned.  While the   *)
(* response is not yet produced the signal is not resolved.                *)
C29_HandledResolved ==
  /\ (/\ pc = "done"
      /\ ~Nested
      /\ outcome.type = "returned"
      /\ ctx.handled # Absent) =>
       handled = "resolved"
  /\ (Dispatching /\ outcome.type = "pending") => handled # "resolved"

-----------------------------------------------------------------------------
\* What the #route call of the frame returns or throws, from what that
\* call itself has seen: its handler's response with its own effects
\* applied, or the outcome of its own failures.
OwnOutcome(f) ==
  IF f.err = Absent \/ (f.recoverSelected # 0 /\ f.recoverErr = Absent)
  THEN Returned(executeEffects(f.ctx.effects, f.response))
  ELSE IF f.recoverSelected = 0 THEN unrecovered(f.err).outcome
  ELSE doubleFailure(f.err, f.recoverErr).outcome

\* The #route call of the frame has seen nothing of another dispatch.
Isolated(f) ==
  f.pc # "idle" =>
    /\ f.fqURL = f.request.url
    /\ f.ctx.request = f.request
    /\ f.selected = FirstMatching(routes, f.request, f.request.url)
    /\ \A k \in 1..Len(f.calls) :
         f.calls[k].table = "routes" => f.calls[k].route = f.selected
    /\ (f.selected # 0 /\ f.pc = "route") =>
         /\ f.ctx.match = exec(routes[f.selected].pattern, f.request.url)
         /\ f.ctx.handled = Promise("handled")
    /\ f.ctx.effects # Absent =>
         \A k \in 1..Len(f.ctx.effects.items) :
           f.ctx.effects.items[k].request = f.request
    /\ f.response # Absent => f.response.applied = <<>>
    /\ f.pc = "done" =>
         /\ f.outcome = OwnOutcome(f)
         /\ (f.outcome.type = "returned" /\ f.outcome.value.by = "handler") =>
              \A k \in 1..Len(f.outcome.value.applied) :
                f.outcome.value.applied[k].request = f.request

(* C30: isolation of interleaved dispatches.  Of two dispatches on one     *)
(* router whose steps interleave, each has its own request, match,         *)
(* EffectsList and completion signal: its middleware and handler are those *)
(* of the route its own request selects, the effects applied to its        *)
(* response are those pushed for its own request, and what it returns is   *)
(* determined by its own request, handler result and failures, as when it  *)
(* runs alone.                                                             *)
C30_DispatchIsolation ==
  /\ Isolated(Frame)
  /\ suspended # Absent => Isolated(suspended)

\* Two dispatches for different requests have interleaved and both have
\* returned their handler's response, each with the effect pushed for it.
C30_Witness ==
  /\ pc = "done"
  /\ suspended # Absent
  /\ suspended.pc = "done"
  /\ suspended.request.url # request.url
  /\ outcome.type = "returned"
  /\ outcome.value.by = "handler"
  /\ outcome.value.applied = <<Effect("baseMiddleware", request)>>
  /\ suspended.outcome.type = "returned"
  /\ suspended.outcome.value.by = "handler"
  /\ suspended.outcome.value.applied =
       <<Effect("baseMiddleware", suspended.request)>>

-----------------------------------------------------------------------------
(* Effects, recovery and mounts.                                           *)

\* The log entries of the user handlers invoked, primary or recover, of
\* either router.
UserHandlerCalls ==
  {k \in 1..Len(calls) : calls[k].fn \in {"handler", "recover.handler"}}

\* The last user handler invoked in this dispatch.
LastHandler == CHOOSE k \in UserHandlerCalls : \A j \in UserHandlerCalls : j <= k

\* The EffectsList #route puts in the context before it runs an entry of
\* the table.
ListOf(table) ==
  CASE table = "routes" -> EffectsList(1)
    [] table = "recoverRoutes" -> EffectsList(2)
    [] table = "subRouter.routes" -> EffectsList(3)
    [] table = "subRouter.recoverRoutes" -> EffectsList(4)

(* C31: effects are applied exactly once.  A response a user handler has   *)
(* produced (primary or recover, of the router or of the mounted router)   *)
(* is returned with the effects of one EffectsList applied, each once: the *)
(* list #route put in the context for that handler's route, holding what   *)
(* the middleware before the handler pushed on it; passing back through    *)
(* the mount route adds nothing to it.                                     *)
C31_EffectsAppliedOnce ==
  (/\ pc = "done"
   /\ UserHandlerCalls # {}
   /\ calls[LastHandler].result = "fulfilled") =>
    /\ outcome.type = "returned"
    /\ LET c == calls[LastHandler]
       IN  /\ ctx.effects.id = ListOf(c.table).id
           /\ outcome.value.applied = ctx.effects.items
           /\ outcome.value.applied =
                [i \in 1..Len(c.given) |-> Effect(c.given[i], request)]
           /\ outcome.value = executeEffects(ctx.effects, response)

\* A request went through the mount into a route of the second router
\* whose middleware pushed an effect; the first router has returned the
\* handler's response with that one effect applied.
C31_Witness ==
  /\ pc = "done"
  /\ ~Nested
  /\ CallsOf("handler", "subRouter.routes") # {}
  /\ outcome.type = "returned"
  /\ outcome.value.by = "handler"
  /\ outcome.value.applied = <<Effect("baseMiddleware", request)>>

\* The first entry of the table whose pattern matches the URL, whatever
\* the method; 0 when there is none.
FirstPatternMatch(table, url) ==
  LET hits == {i \in 1..Len(table) : exec(table[i].pattern, url) # Absent}
  IN  IF hits = {} THEN 0 ELSE CHOOSE i \in hits : \A j \in hits : i <= j

(* C32: the recover lookup.  Every entry of #recoverRoutes has the         *)
(* wildcard method.  Once a dispatch has looked up a recover route, the    *)
(* entry selected is the first of #recoverRoutes, in insertion order,      *)
(* whose pattern matches the URL the primary lookup was made with (the     *)
(* request's URL), whatever the request's method; the recover middleware   *)
(* and handler invoked belong to that entry.                               *)
C32_RecoverLookup ==
  /\ \A i \in 1..Len(recoverRoutes) : recoverRoutes[i].method = "ANY"
  /\ CallsOf("execPatterns", "recoverRoutes") # {} =>
       /\ fqURL = request.url
       /\ selected = FirstMatching(routes, request, request.url)
       /\ recoverSelected = FirstPatternMatch(recoverRoutes, request.url)
       /\ recoverSelected = FirstMatching(recoverRoutes, request, request.url)
       /\ Cardinality(CallsOf("execPatterns", "recoverRoutes")) = 1
       /\ \A k \in 1..Len(calls) :
            calls[k].table = "recoverRoutes" =>
              calls[k].route = recoverSelected

\* Recover routes for '/item' and '*', in this order, and a POST of
\* '/other' that no route matched: the second recover route was selected
\* and its handler has run.
C32_Witness ==
  /\ pc = "done"
  /\ Len(recoverRoutes) = 2
  /\ recoverRoutes[1].pattern.pathname = PatItem
  /\ recoverRoutes[2].pattern.pathname = PatAny
  /\ request = Request(URL(LocalOrigin, PathOther), "POST")
  /\ err = notFound
  /\ recoverSelected = 2
  /\ \E k \in CallsOf("recover.handler", "recoverRoutes") : calls[k].route = 2

\* The URL #routeHandler makes for the second router's #route, from the
\* request and the mount route the request selects.
SubURL ==
  LET mount == routes[FirstMatching(routes, request, request.url)]
      groups == exec(mount.pattern, request.url).pathname.groups
  IN  newURL(subPath(ObjectValues(groups)), request.url.origin)

\* The log entries of the second router's middleware and handlers that
\* threw or rejected, of the primary pass and of the recover pass.
SubFailures ==
  {k \in 1..Len(calls) : /\ calls[k].table = "subRouter.routes"
                         /\ calls[k].result \in {"thrown", "rejected"}}
SubRecoverFailures ==
  {k \in 1..Len(calls) : /\ calls[k].table = "subRouter.recoverRoutes"
                         /\ calls[k].result \in {"thrown", "rejected"}}

\* The recover lookups of the second router.
SubLookups == CallsOf("execPatterns", "subRouter.recoverRoutes")

\* What the second router, debug off, answers to the failure logged at k
\* when recovery does not produce a response: no recover route matched
\* (j = 0) or the recover pass failed at j.
Degraded(k, j) ==
  IF j # 0 /\ isResponse(calls[j].value) THEN calls[j].value
  ELSE IF isResponse(calls[k].value) THEN calls[k].value
  ELSE internalServerError

(* C33: the mounted router is its own error boundary.  With debug off on   *)
(* the mounted router, a value thrown by one of its middleware or handlers *)
(* is looked up in its own #recoverRoutes only, by the rewritten URL; the  *)
(* catch block of the mounting router is not entered, its #recoverRoutes   *)
(* are neither looked up nor run, and the mounting router returns the      *)
(* response the mounted router's #route returned: its recover handler's    *)
(* response, or the thrown Response, or the internal server error          *)
(* response.                                                               *)
C33_SubRouterBoundary ==
  (~subRouter.debug /\ SubFailures # {}) =>
    /\ \A k \in 1..Len(calls) : calls[k].table # "recoverRoutes"
    /\ Cardinality(SubLookups) <= 1
    /\ \A k \in SubLookups :
         calls[k].route = FirstPatternMatch(subRouter.recoverRoutes, SubURL)
    /\ Nested => fqURL = SubURL
    /\ ~Nested => /\ pc = "done"
                  /\ err = Absent
                  /\ recoverSelected = 0
    /\ pc = "done" =>
         /\ outcome.type = "returned"
         /\ SubLookups # {}
         /\ LET k == CHOOSE i \in SubFailures : TRUE
                found == calls[CHOOSE i \in SubLookups : TRUE].route
            IN  IF found = 0 THEN outcome.value = Degraded(k, 0)
                ELSE IF SubRecoverFailures # {}
                THEN outcome.value =
                       Degraded(k, CHOOSE j \in SubRecoverFailures : TRUE)
                ELSE /\ outcome.value.by = "recover.handler"
                     /\ outcome.value = executeEffects(ctx.effects, response)
                     /\ calls[LastHandler].table = "subRouter.recoverRoutes"

\* The mounting router has debug on and a recover route that matches; the
\* mounted router has debug off and no recover route.  The handler of the
\* mounted router threw an Error, and the mounting router has returned the
\* internal server error response of the mounted router.
C33_Witness ==
  /\ pc = "done"
  /\ ~Nested
  /\ debug
  /\ ~subRouter.debug
  /\ Len(recoverRoutes) = 1
  /\ exec(recoverRoutes[1].pattern, request.url) # Absent
  /\ subRouter.recoverRoutes = <<>>
  /\ \E k \in SubFailures : calls[k].value = UserError("handler")
  /\ outcome = Returned(internalServerError)

\* The primary handlers that threw after a middleware had pushed an effect
\* on the list of their pass.
FailedWithEffects ==
  {k \in 1..Len(calls) : /\ calls[k].fn = "handler"
                         /\ calls[k].result = "thrown"
                         /\ calls[k].given # <<>>}

\* Something has failed in this dispatch: a primary lookup found nothing
\* or a stage threw or rejected.
Failed ==
  \E k \in 1..Len(calls) :
    \/ calls[k].result \in {"thrown", "rejected"}
    \/ /\ calls[k].fn = "execPatterns"
       /\ calls[k].table \in {"routes", "subRouter.routes"}
       /\ calls[k].route = 0

(* C34: the recover pass starts with an EffectsList of its own.  The       *)
(* context a recover route is run with holds a new, empty list, not the    *)
(* list of the failed primary pass; so what a failed dispatch returns (the *)
(* recover handler's response, a thrown Response, or the internal server   *)
(* error response) has none of the effects applied that were pushed during *)
(* the primary pass.                                                       *)
C34_RecoveryFreshEffects ==
  /\ recoverSelected # 0 =>
       ctx.effects = EffectsList(IF Nested THEN 4 ELSE 2)
  /\ (pc = "done" /\ Failed /\ outcome.type = "returned") =>
       /\ outcome.value.applied = <<>>
       /\ \A k \in FailedWithEffects :
            \A i \in 1..Len(calls[k].given) :
              \A j \in 1..Len(outcome.value.applied) :
                outcome.value.applied[j] # Effect(calls[k].given[i], request)

\* The router's middleware pushed an effect, the handler threw an Error,
\* and the recover handler's response was returned with no effect applied.
C34_Witness ==
  /\ pc = "done"
  /\ ~Nested
  /\ \E k \in FailedWithEffects :
       /\ calls[k].table = "routes"
       /\ calls[k].value = UserError("handler")
  /\ recoverSelected # 0
  /\ outcome.type = "returned"
  /\ outcome.value.by = "recover.handler"
  /\ outcome.value.applied = <<>>

(* C35: the context of the recover pass.  The match in the context a       *)
(* recover route is run with is the result of that recover route's pattern *)
(* on the URL of the #route call, not the match of the primary route;      *)
(* request and waitUntil are those the dispatch started with.              *)
C35_RecoverContext ==
  recoverSelected # 0 =>
    /\ ctx.match = exec(ThisRecoverRoutes[recoverSelected].pattern, fqURL)
    /\ ctx.match # Absent
    /\ ctx.request = request
    /\ ctx.waitUntil = [kind |-> "function", name |-> "noop"]
    /\ ctx.response # Absent

\* In the mounted router the handler of '/:type/:id' threw and the recover
\* route '*' has run: the context holds the match of '*' on '/soap/3', a
\* single group, not the groups type and id.
C35_Witness ==
  /\ Nested
  /\ pc = "done"
  /\ selected # 0
  /\ subRouter.routes[selected].pattern.pathname = PatTypeId
  /\ recoverSelected # 0
  /\ CallsOf("recover.handler", "subRouter.recoverRoutes") # {}
  /\ ctx.match.pathname.groups =
       <<[key |-> "0", value |-> <<"/", "soap", "/", "3">>]>>
  /\ ctx.match # exec(subRouter.routes[selected].pattern, fqURL)
  /\ ctx.request = request

\* The first entry of #routes that is for the request in flight, and
\* whether it is a mount route.
FirstForRequest == FirstMatching(routes, request, request.url)
MountFirst ==
  /\ Dispatching
  /\ FirstForRequest # 0
  /\ routes[FirstForRequest].handler = <<"routeHandler">>

\* The second router's lookup found no route for the rewritten URL.
SubNotFound ==
  \E k \in CallsOf("execPatterns", "subRouter.routes") : calls[k].route = 0

(* C36: no backtracking across a mount.  When a mount route is the first   *)
(* entry of #routes that matches the request, it is the entry selected,    *)
(* #routes is looked up once, and no other entry of #routes is invoked,    *)
(* whatever the second router does.  What the second router's #route       *)
(* returns is what the first returns, and what it throws is caught by the  *)
(* first as thrown by the mount route's handler.  If the second router has *)
(* no route for the rewritten URL, no route handler of either router runs: *)
(* notFound() is thrown in the second router's #route, which without a     *)
(* recover route of its own returns it (debug off) to the first router,    *)
(* and the first router returns that 404.                                  *)
C36_NoBacktracking ==
  MountFirst =>
    /\ OuterSelected = FirstForRequest
    /\ Cardinality(CallsOf("execPatterns", "routes")) = 1
    /\ \A k \in 1..Len(calls) :
         calls[k].table = "routes" =>
           /\ calls[k].route = FirstForRequest
           /\ calls[k].fn \in {"execPatterns", "route.handler", "routeHandler"}
    /\ (~Nested /\ pc = "done" /\ err = Absent) => outcome.type = "returned"
    /\ (~Nested /\ err # Absent /\ SubCalls # <<>>) => subRouter.debug
    /\ SubNotFound =>
         /\ CallsOf("handler", "routes") = {}
         /\ CallsOf("handler", "subRouter.routes") = {}
         /\ Nested => err = notFound
         /\ (pc = "done"
               /\ FirstPatternMatch(subRouter.recoverRoutes, SubURL) = 0) =>
              IF Nested
              THEN outcome = IF subRouter.debug THEN Thrown(notFound)
                             ELSE Returned(notFound)
              ELSE ~subRouter.debug => outcome = Returned(notFound)

\* '/item*' is mounted and a route '*' is registered after it; the second
\* router has a route '/:type/:id' only.  A GET of '/item' selected the
\* mount, the second router had no route for '/', and the first router
\* returned the 404 with its own later route not invoked.
C36_Witness ==
  /\ pc = "done"
  /\ ~Nested
  /\ Len(routes) = 2
  /\ routes[1].handler = <<"routeHandler">>
  /\ routes[2].pattern.pathname = PatAny
  /\ Matches(routes[2], request, request.url)
  /\ Len(subRouter.routes) = 1
  /\ request.url.pathname = PathItem
  /\ SubNotFound
  /\ CallsOf("handler", "routes") = {}
  /\ outcome = Returned(notFound)

(* C37: the URL a mount route passes to the second router has the origin   *)
(* (scheme, host, port) of the request URL, whatever value the last group  *)
(* of the mount route's match holds.                                       *)
C37_SubURLSameOrigin ==
  Nested =>
    /\ fqURL = SubURL
    /\ fqURL.origin = request.url.origin

\* The tables of the two routers, by router.
Levels == {<<"routes", "recoverRoutes">>,
           <<"subRouter.routes", "subRouter.recoverRoutes">>}

\* How often fn was called on entries of the table in this dispatch.
Count(fn, table) == Cardinality(CallsOf(fn, table))

\* Per router: one lookup in each table at most, one compiled handler and
\* one user handler of each table at most; after a failure in the recover
\* pass of a router nothing more of that router is looked up or invoked.
BoundedWork ==
  /\ \A level \in Levels :
       /\ Count("execPatterns", level[1]) <= 1
       /\ Count("route.handler", level[1]) <= 1
       /\ Count("handler", level[1]) <= 1
       /\ Count("execPatterns", level[2]) <= 1
       /\ Count("route.handler", level[2]) <= 1
       /\ Count("recover.handler", level[2]) <= 1
       /\ \A k \in 1..Len(calls) :
            (/\ calls[k].table = level[2]
             /\ calls[k].result \in {"thrown", "rejected"}) =>
              \A j \in (k + 1)..Len(calls) :
                calls[j].table \notin {level[1], level[2]}
  /\ Count("routeHandler", "routes") <= 1
  /\ Len(calls) <= 13

(* C38: every dispatch terminates.  Provided every middleware and handler  *)
(* invoked comes back, a dispatch in flight reaches the return (or the     *)
(* throw) of the #route call that handle made.  On the way each router     *)
(* looks up its #routes once at most, runs one primary handler at most,    *)
(* looks up its #recoverRoutes once at most and runs one recover handler   *)
(* at most; a recover handler that fails is followed by no further lookup  *)
(* and no further handler of its router.                                   *)
C38_DispatchTerminates ==
  /\ []BoundedWork
  /\ (pc \in {"route", "catch", "recover", "recoverCatch"} \/ Nested)
       ~> (pc = "done" /\ ~Nested)

\* The handler and the recover handler of the mounted router (debug on)
\* both threw, the aggregate reached the mounting router, whose recover
\* handler threw as well: the dispatch has ended there.
C38_Witness ==
  /\ pc = "done"
  /\ ~Nested
  /\ Count("handler", "subRouter.routes") = 1
  /\ SubFailures # {}
  /\ Count("recover.handler", "subRouter.recoverRoutes") = 1
  /\ SubRecoverFailures # {}
  /\ Count("execPatterns", "recoverRoutes") = 1
  /\ Count("recover.handler", "recoverRoutes") = 1
  /\ recoverErr = UserError("recover.handler")
  /\ err.kind = "AggregateError"

====
